---- MODULE Spec2Model ----
(***************************************************************************)
(* Model of cargo-verify (src/cargo-verify/src): the driver main/verify of *)
(* main.rs and the backend adapters that classify the captured output of   *)
(* KLEE (klee.rs run / main.rs klee_run) and Seahorn (seahorn.rs run).     *)
(*                                                                         *)
(* Text.  A line of output is a sequence of lexemes; the text of the line  *)
(* is the concatenation of its lexemes.  The literals the code matches are *)
(* sequences of lexemes too, so starts_with, contains, strip_prefix,       *)
(* strip_suffix and the two regular expressions are computed on the line,  *)
(* lexeme by lexeme, the way the code computes them character by           *)
(* character.  The lexemes are cut so that no literal of the code begins   *)
(* or ends inside a lexeme.                                                *)
(***************************************************************************)
EXTENDS Integers, Sequences, FiniteSets, TLC

\* Bounds of the model.
MaxLines == 3
MaxEntries == 2
MaxEntryLines == 1
MaxReplay == 2
MaxParts == 3
MaxEchoLines == 2
MaxVerbosity == 6
MaxChars == 3
MaxPresents == 2
MaxCopies == 263600000

-----------------------------------------------------------------------------
\* enum Status (main.rs:164-172); NoStatus is the None of Option<Status>.
Status == {"Unknown", "Verified", "Error", "Timeout", "Overflow", "Reachable"}
NoStatus == "None"

\* Option<&str>: None is the empty sequence, Some(x) the one-element sequence.
NoneStr == << >>
Some(x) == << x >>

-----------------------------------------------------------------------------
\* str::starts_with, str::ends_with, str::contains
starts_with(l, p) == Len(p) <= Len(l) /\ SubSeq(l, 1, Len(p)) = p
ends_with(l, p) == Len(p) <= Len(l) /\ SubSeq(l, Len(l) - Len(p) + 1, Len(l)) = p
contains(l, p) == \E i \in 1..(Len(l) - Len(p) + 1) : SubSeq(l, i, i + Len(p) - 1) = p

\* The literals of the classifiers.
VERIFIER_EXPECT == << "VERIFIER_EXPECT:" >>
SHOULD_PANIC == << "VERIFIER_EXPECT:", " should_panic" >>
SHOULD_PANIC_PREFIX == << "VERIFIER_EXPECT:", " should_panic", "(expected = \"" >>
SHOULD_PANIC_SUFFIX == << "\")" >>
KLEE_HALT_TIMER == << "KLEE:", " HaltTimer invoked" >>
KLEE_HALTING == << "KLEE:", " halting execution, dumping remaining states" >>
KLEE_COULD_NOT_LINK == << "KLEE:", " ERROR:", " Could not link" >>
KLEE_UNABLE_TO_LOAD == << "KLEE:", " ERROR:", " Unable to load symbol" >>
KLEE_ERROR == << "KLEE:", " ERROR:" >>
KLEE_DONE_LIT == << "KLEE:", " done:" >>
UNREACHABLE == << "unreachable" >>
OVERFLOW == << "overflow" >>
ASSERTION_FAILED == << "assertion failed" >>
VERIFICATION_FAILED == << "verification failed" >>
WITH_OVERFLOW == << "with ", "overflow" >>
\* (the back quotes of the literal at klee.rs:252 are left out of the lexeme)
RUST_BACKTRACE == << "note: run with RUST_BACKTRACE=1" >>
SAT == << "sat" >>
UNSAT == << "unsat" >>

\* Lexemes of the regular expression PANOCKED (klee.rs:343): the text
\* panicked at, a quoted message without quotes, a comma, white space, the rest.
PANICKED_AT == " panicked at '"
QUOTE_COMMA_SPACE == "', "
HasQuote(lexeme) == lexeme \in {"thread 'main'", PANICKED_AT, QUOTE_COMMA_SPACE}

\* The positions where PANOCKED matches: " panicked at '", then lexemes without
\* a quote, then the closing quote and comma (the rest is the source location).
PANOCKED_end(l, i) ==
    {j \in (i + 1)..Len(l) :
        /\ l[j] = QUOTE_COMMA_SPACE
        /\ \A k \in (i + 1)..(j - 1) : ~HasQuote(l[k])}
PANOCKED_starts(l) == {i \in 1..Len(l) : l[i] = PANICKED_AT /\ PANOCKED_end(l, i) # {}}

Min(S) == CHOOSE x \in S : \A y \in S : x <= y
Max(S) == CHOOSE x \in S : \A y \in S : x >= y

\* Regex::captures(line), group 1: the message of the leftmost match.
PANOCKED_captures(l) ==
    IF PANOCKED_starts(l) = {} THEN NoneStr
    ELSE LET i == Min(PANOCKED_starts(l))
             j == Min(PANOCKED_end(l, i))
         IN  Some(SubSeq(l, i + 1, j - 1))

\* is_expected_panic recognizing no line.
is_expected_panic_never(line, expect) == FALSE

\* is_expected_panic with the required substring ignored.
is_expected_panic_any_message(line, expect) ==
    expect # NoneStr /\ PANOCKED_captures(line) # NoneStr

\* fn is_expected_panic (klee.rs:341-362, main.rs:670-688)
is_expected_panic(line, expect) ==
    /\ expect # NoneStr
    /\ PANOCKED_captures(line) # NoneStr
    /\ contains(PANOCKED_captures(line)[1], expect[1])

\* backends_common::is_expected_panic, which seahorn.rs calls: the same test.
backends_common_is_expected_panic(line, expect) ==
    /\ expect # NoneStr
    /\ PANOCKED_captures(line) # NoneStr
    /\ contains(PANOCKED_captures(line)[1], expect[1])

-----------------------------------------------------------------------------
\* The body of the expectation loop keeping the first marker instead of the last.
expect_step_first_wins(expect, l) ==
    IF expect # NoneStr THEN expect
    ELSE IF l = SHOULD_PANIC THEN Some(<< >>)
    ELSE IF /\ starts_with(l, SHOULD_PANIC_PREFIX)
            /\ ends_with(SubSeq(l, Len(SHOULD_PANIC_PREFIX) + 1, Len(l)), SHOULD_PANIC_SUFFIX)
         THEN Some(SubSeq(l, Len(SHOULD_PANIC_PREFIX) + 1, Len(l) - Len(SHOULD_PANIC_SUFFIX)))
    ELSE expect

\* The body of the loop "Scan for expectation message" (klee.rs:211-221,
\* seahorn.rs:137-147): the expectation after line l.
expect_step(expect, l) ==
    IF l = SHOULD_PANIC THEN Some(<< >>)
    ELSE IF /\ starts_with(l, SHOULD_PANIC_PREFIX)
            /\ ends_with(SubSeq(l, Len(SHOULD_PANIC_PREFIX) + 1, Len(l)), SHOULD_PANIC_SUFFIX)
         THEN Some(SubSeq(l, Len(SHOULD_PANIC_PREFIX) + 1, Len(l) - Len(SHOULD_PANIC_SUFFIX)))
    ELSE expect

\* The whole loop over stderr.lines().
RECURSIVE scan_expect(_, _)
scan_expect(lines, expect) ==
    IF lines = << >> THEN expect
    ELSE scan_expect(Tail(lines), expect_step(expect, Head(lines)))

-----------------------------------------------------------------------------
\* The closure of find_map with the generic failure patterns tested before the
\* expected panic.
klee_line_status_generic_first(l, expect) ==
    IF starts_with(l, KLEE_HALT_TIMER) THEN "Timeout"
    ELSE IF starts_with(l, KLEE_HALTING) THEN "Timeout"
    ELSE IF starts_with(l, KLEE_COULD_NOT_LINK) THEN "Unknown"
    ELSE IF starts_with(l, KLEE_UNABLE_TO_LOAD) THEN "Unknown"
    ELSE IF starts_with(l, KLEE_ERROR) /\ contains(l, UNREACHABLE) THEN "Reachable"
    ELSE IF starts_with(l, KLEE_ERROR) /\ contains(l, OVERFLOW) THEN "Overflow"
    ELSE IF starts_with(l, KLEE_ERROR) THEN "Error"
    ELSE IF starts_with(l, VERIFIER_EXPECT) THEN NoStatus
    ELSE IF contains(l, ASSERTION_FAILED) THEN "Error"
    ELSE IF contains(l, VERIFICATION_FAILED) THEN "Error"
    ELSE IF contains(l, WITH_OVERFLOW) THEN "Overflow"
    ELSE IF is_expected_panic(l, expect) THEN "Verified"
    ELSE IF contains(l, RUST_BACKTRACE) THEN "Error"
    ELSE IF contains(l, KLEE_DONE_LIT) THEN (IF expect = NoneStr THEN "Verified" ELSE "Error")
    ELSE NoStatus

\* The closure of find_map in KLEE's run with the done line always a failure.
klee_line_status_done_error(l, expect) ==
    IF starts_with(l, KLEE_HALT_TIMER) THEN "Timeout"
    ELSE IF starts_with(l, KLEE_HALTING) THEN "Timeout"
    ELSE IF starts_with(l, KLEE_COULD_NOT_LINK) THEN "Unknown"
    ELSE IF starts_with(l, KLEE_UNABLE_TO_LOAD) THEN "Unknown"
    ELSE IF starts_with(l, KLEE_ERROR) /\ contains(l, UNREACHABLE) THEN "Reachable"
    ELSE IF starts_with(l, KLEE_ERROR) /\ contains(l, OVERFLOW) THEN "Overflow"
    ELSE IF starts_with(l, KLEE_ERROR) THEN "Error"
    ELSE IF starts_with(l, VERIFIER_EXPECT) THEN NoStatus
    ELSE IF is_expected_panic(l, expect) THEN "Verified"
    ELSE IF contains(l, ASSERTION_FAILED) THEN "Error"
    ELSE IF contains(l, VERIFICATION_FAILED) THEN "Error"
    ELSE IF contains(l, WITH_OVERFLOW) THEN "Overflow"
    ELSE IF contains(l, RUST_BACKTRACE) THEN "Error"
    ELSE IF contains(l, KLEE_DONE_LIT) THEN "Error"
    ELSE NoStatus

\* The closure of find_map with the done marker tested before the failures.
klee_line_status_done_first(l, expect) ==
    IF starts_with(l, KLEE_HALT_TIMER) THEN "Timeout"
    ELSE IF starts_with(l, KLEE_HALTING) THEN "Timeout"
    ELSE IF starts_with(l, VERIFIER_EXPECT) THEN NoStatus
    ELSE IF contains(l, KLEE_DONE_LIT) THEN (IF expect = NoneStr THEN "Verified" ELSE "Error")
    ELSE IF starts_with(l, KLEE_COULD_NOT_LINK) THEN "Unknown"
    ELSE IF starts_with(l, KLEE_UNABLE_TO_LOAD) THEN "Unknown"
    ELSE IF starts_with(l, KLEE_ERROR) /\ contains(l, UNREACHABLE) THEN "Reachable"
    ELSE IF starts_with(l, KLEE_ERROR) /\ contains(l, OVERFLOW) THEN "Overflow"
    ELSE IF starts_with(l, KLEE_ERROR) THEN "Error"
    ELSE IF is_expected_panic(l, expect) THEN "Verified"
    ELSE IF contains(l, ASSERTION_FAILED) THEN "Error"
    ELSE IF contains(l, VERIFICATION_FAILED) THEN "Error"
    ELSE IF contains(l, WITH_OVERFLOW) THEN "Overflow"
    ELSE IF contains(l, RUST_BACKTRACE) THEN "Error"
    ELSE NoStatus

\* The closure of find_map with the second timeout marker left out.
klee_line_status_no_halting(l, expect) ==
    IF starts_with(l, KLEE_HALT_TIMER) THEN "Timeout"
    ELSE IF starts_with(l, KLEE_COULD_NOT_LINK) THEN "Unknown"
    ELSE IF starts_with(l, KLEE_UNABLE_TO_LOAD) THEN "Unknown"
    ELSE IF starts_with(l, KLEE_ERROR) /\ contains(l, UNREACHABLE) THEN "Reachable"
    ELSE IF starts_with(l, KLEE_ERROR) /\ contains(l, OVERFLOW) THEN "Overflow"
    ELSE IF starts_with(l, KLEE_ERROR) THEN "Error"
    ELSE IF starts_with(l, VERIFIER_EXPECT) THEN NoStatus
    ELSE IF is_expected_panic(l, expect) THEN "Verified"
    ELSE IF contains(l, ASSERTION_FAILED) THEN "Error"
    ELSE IF contains(l, VERIFICATION_FAILED) THEN "Error"
    ELSE IF contains(l, WITH_OVERFLOW) THEN "Overflow"
    ELSE IF contains(l, RUST_BACKTRACE) THEN "Error"
    ELSE IF contains(l, KLEE_DONE_LIT) THEN (IF expect = NoneStr THEN "Verified" ELSE "Error")
    ELSE NoStatus

\* The closure of find_map without the branch that passes over the marker
\* lines.
klee_line_status_marker_read(l, expect) ==
    IF starts_with(l, KLEE_HALT_TIMER) THEN "Timeout"
    ELSE IF starts_with(l, KLEE_HALTING) THEN "Timeout"
    ELSE IF starts_with(l, KLEE_COULD_NOT_LINK) THEN "Unknown"
    ELSE IF starts_with(l, KLEE_UNABLE_TO_LOAD) THEN "Unknown"
    ELSE IF starts_with(l, KLEE_ERROR) /\ contains(l, UNREACHABLE) THEN "Reachable"
    ELSE IF starts_with(l, KLEE_ERROR) /\ contains(l, OVERFLOW) THEN "Overflow"
    ELSE IF starts_with(l, KLEE_ERROR) THEN "Error"
    ELSE IF is_expected_panic(l, expect) THEN "Verified"
    ELSE IF contains(l, ASSERTION_FAILED) THEN "Error"
    ELSE IF contains(l, VERIFICATION_FAILED) THEN "Error"
    ELSE IF contains(l, WITH_OVERFLOW) THEN "Overflow"
    ELSE IF contains(l, RUST_BACKTRACE) THEN "Error"
    ELSE IF contains(l, KLEE_DONE_LIT) THEN (IF expect = NoneStr THEN "Verified" ELSE "Error")
    ELSE NoStatus

\* The closure of find_map in KLEE's run (klee.rs:226-263, main.rs:809-845):
\* the status line l decides, NoStatus when it decides none.
klee_line_status(l, expect) ==
    IF starts_with(l, KLEE_HALT_TIMER) THEN "Timeout"
    ELSE IF starts_with(l, KLEE_HALTING) THEN "Timeout"
    ELSE IF starts_with(l, KLEE_COULD_NOT_LINK) THEN "Unknown"
    ELSE IF starts_with(l, KLEE_UNABLE_TO_LOAD) THEN "Unknown"
    ELSE IF starts_with(l, KLEE_ERROR) /\ contains(l, UNREACHABLE) THEN "Reachable"
    ELSE IF starts_with(l, KLEE_ERROR) /\ contains(l, OVERFLOW) THEN "Overflow"
    ELSE IF starts_with(l, KLEE_ERROR) THEN "Error"
    ELSE IF starts_with(l, VERIFIER_EXPECT) THEN NoStatus
    ELSE IF is_expected_panic(l, expect) THEN "Verified"
    ELSE IF contains(l, ASSERTION_FAILED) THEN "Error"
    ELSE IF contains(l, VERIFICATION_FAILED) THEN "Error"
    ELSE IF contains(l, WITH_OVERFLOW) THEN "Overflow"
    ELSE IF contains(l, RUST_BACKTRACE) THEN "Error"
    ELSE IF contains(l, KLEE_DONE_LIT) THEN (IF expect = NoneStr THEN "Verified" ELSE "Error")
    ELSE NoStatus

\* The closure of find_map in Seahorn's run with every other line a failure.
seahorn_line_status_else_error(l, expect) ==
    IF starts_with(l, VERIFIER_EXPECT) THEN NoStatus
    ELSE IF backends_common_is_expected_panic(l, expect) THEN "Verified"
    ELSE IF l = SAT THEN "Error"
    ELSE IF l = UNSAT THEN (IF expect = NoneStr THEN "Verified" ELSE "Error")
    ELSE "Error"

\* The closure of find_map in Seahorn's run with unsat always a success.
seahorn_line_status_unsat_verified(l, expect) ==
    IF starts_with(l, VERIFIER_EXPECT) THEN NoStatus
    ELSE IF backends_common_is_expected_panic(l, expect) THEN "Verified"
    ELSE IF l = SAT THEN "Error"
    ELSE IF l = UNSAT THEN "Verified"
    ELSE NoStatus

\* The closure of find_map in Seahorn's run (seahorn.rs:153-169).
seahorn_line_status(l, expect) ==
    IF starts_with(l, VERIFIER_EXPECT) THEN NoStatus
    ELSE IF backends_common_is_expected_panic(l, expect) THEN "Verified"
    ELSE IF l = SAT THEN "Error"
    ELSE IF l = UNSAT THEN (IF expect = NoneStr THEN "Verified" ELSE "Error")
    ELSE NoStatus

\* The lines of the status scan with stdout read before stderr.
status_lines_stdout_first(b, err, out) == IF b = "Seahorn" THEN out \o err ELSE err

\* The lines a backend's status scan reads: stderr for KLEE (klee.rs:224-225),
\* stderr chained with stdout for Seahorn (seahorn.rs:150-152).
status_lines(b, err, out) == IF b = "Seahorn" THEN err \o out ELSE err

line_status(b, l, expect) ==
    IF b = "Seahorn" THEN seahorn_line_status(l, expect) ELSE klee_line_status(l, expect)

\* Iterator::find_map over the lines, then unwrap_or_else(Status::Unknown)
\* (klee.rs:224-267, seahorn.rs:150-173).
RECURSIVE find_map_status(_, _, _)
find_map_status(b, lines, expect) ==
    IF lines = << >> THEN NoStatus
    ELSE LET s == line_status(b, Head(lines), expect)
         IN  IF s # NoStatus THEN s ELSE find_map_status(b, Tail(lines), expect)

scan_status(b, err, out) ==
    LET s == find_map_status(b, status_lines(b, err, out), scan_expect(err, NoneStr))
    IN  IF s = NoStatus THEN "Unknown" ELSE s

-----------------------------------------------------------------------------
\* Statistics (klee.rs:271-287, main.rs:852-864).
\* KLEE_DONE is the regular expression ^KLEE: done:\s+(.*)= (\d+): the two
\* lexemes KLEE: done:, white space, a label, the lexeme "= " and digits.
Digits == {"42", "5", "7"}
DigitValue(d) == IF d = "42" THEN 42 ELSE IF d = "5" THEN 5 ELSE 7
IsSpace(x) == x = " "

KLEE_DONE_eqs(l) == {j \in 4..(Len(l) - 1) : l[j] = "= " /\ l[j + 1] \in Digits}
KLEE_DONE_matches(l) ==
    /\ starts_with(l, KLEE_DONE_LIT)
    /\ Len(l) >= 3 /\ IsSpace(l[3])
    /\ KLEE_DONE_eqs(l) # {}
\* group 1, the label (greedy: up to the last "= " that digits follow), and
\* group 2, the digits.
KLEE_DONE_group1(l) ==
    LET j == Max(KLEE_DONE_eqs(l))
        k == Min({i \in 4..j : i = j \/ ~IsSpace(l[i])})
    IN  SubSeq(l, k, j - 1)
KLEE_DONE_group2(l) == << l[Max(KLEE_DONE_eqs(l)) + 1] >>

\* str::trim on the lexemes of a label
RECURSIVE trim_start(_)
trim_start(g) == IF g # << >> /\ IsSpace(Head(g)) THEN trim_start(Tail(g)) ELSE g
RECURSIVE trim_end(_)
trim_end(g) ==
    IF g # << >> /\ IsSpace(g[Len(g)]) THEN trim_end(SubSeq(g, 1, Len(g) - 1)) ELSE g
trim(g) == trim_end(trim_start(g))

\* str::parse::<isize>: Ok exactly for a run of digits
parse_isize_ok(g) == Len(g) = 1 /\ g[1] \in Digits

\* The filter_map and collect of the statistics: panicked when some matching
\* line's group 1 does not parse (the unwrap at klee.rs:283), else the map.
RECURSIVE klee_stats(_, _)
klee_stats(lines, map) ==
    IF lines = << >> THEN [panicked |-> FALSE, map |-> map]
    ELSE LET l == Head(lines) IN
         IF ~KLEE_DONE_matches(l) THEN klee_stats(Tail(lines), map)
         ELSE IF ~parse_isize_ok(KLEE_DONE_group1(l)) THEN [panicked |-> TRUE, map |-> map]
         ELSE klee_stats(Tail(lines),
                         (trim(KLEE_DONE_group1(l)) :> DigitValue(KLEE_DONE_group1(l)[1])) @@ map)

\* The unwrap of stats.get(completed paths) in klee_verify (klee.rs:38-46,
\* main.rs:896-899) panics when the map is not empty and lacks that key.
COMPLETED_PATHS == << "completed paths" >>
klee_verify_stats_panics(map) == DOMAIN map # {} /\ COMPLETED_PATHS \notin DOMAIN map


-----------------------------------------------------------------------------
\* The echo of the output (klee.rs:100-154 and 291-295, main.rs:699-748 and
\* 868-872, seahorn.rs:40-67 and 181-185).

\* importance of klee.rs (klee_importance of main.rs)
klee_importance(line, expect) ==
    IF starts_with(line, VERIFIER_EXPECT) THEN 4
    ELSE IF is_expected_panic(line, expect) THEN 5
    ELSE IF contains(line, ASSERTION_FAILED) THEN 1
    ELSE IF contains(line, VERIFICATION_FAILED) THEN 1
    ELSE IF contains(line, WITH_OVERFLOW) THEN 1
    ELSE IF starts_with(line, KLEE_COULD_NOT_LINK) THEN -1
    ELSE IF starts_with(line, KLEE_UNABLE_TO_LOAD) THEN -1
    ELSE IF starts_with(line, KLEE_ERROR) THEN 2
    ELSE IF starts_with(line, << "warning: Linking two modules of different data layouts" >>) THEN 4
    ELSE IF contains(line, << "KLEE:", " WARNING:" >>) THEN 4
    ELSE IF contains(line, << "KLEE:", " WARNING ONCE:" >>) THEN 4
    ELSE IF starts_with(line, << "KLEE:", " output directory" >>) THEN 5
    ELSE IF starts_with(line, << "KLEE:", " Using" >>) THEN 5
    ELSE IF starts_with(line, << "KLEE:", " NOTE:", " Using POSIX model" >>) THEN 5
    ELSE IF starts_with(line, KLEE_DONE_LIT) THEN 5
    ELSE IF starts_with(line, KLEE_HALT_TIMER) THEN 5
    ELSE IF starts_with(line, KLEE_HALTING) THEN 5
    ELSE IF starts_with(line, << "KLEE:", " NOTE:", " now ignoring this error at this location" >>) THEN 5
    ELSE IF starts_with(line, << "KLEE:" >>) THEN 0
    ELSE 3

\* importance of seahorn.rs
seahorn_importance(line, expect) ==
    IF starts_with(line, VERIFIER_EXPECT) THEN 4
    ELSE IF line = SAT THEN 1
    ELSE IF starts_with(line, << "Warning:", " Externalizing function:" >>) \/ starts_with(line, << "Warning:", " not lowering an initializer for a global struct:" >>) THEN 4
    ELSE IF backends_common_is_expected_panic(line, expect) \/ line = UNSAT THEN 5
    ELSE IF starts_with(line, << "Warning:" >>) THEN 0
    ELSE 3

importance(b, line, expect) ==
    IF b = "Seahorn" THEN seahorn_importance(line, expect) ELSE klee_importance(line, expect)

\* opt.verbosity as i8: the low eight bits, as a signed value
as_i8(v) == IF v % 256 >= 128 THEN (v % 256) - 256 ELSE v % 256

\* The loop that prints (klee.rs:291-295, seahorn.rs:181-185): the lines of
\* stderr whose importance is below the verbosity.
RECURSIVE echo(_, _, _, _)
echo(b, lines, expect, v) ==
    IF lines = << >> THEN << >>
    ELSE (IF importance(b, Head(lines), expect) < as_i8(v) THEN << Head(lines) >> ELSE << >>)
         \o echo(b, Tail(lines), expect, v)

-----------------------------------------------------------------------------
\* The lines the captured output is drawn from.
ExpectLines ==
    { SHOULD_PANIC,
      << "VERIFIER_EXPECT:", " should_panic", "(expected = \"", "X", "\")" >>,
      << "VERIFIER_EXPECT:", " should_panic", "(expected = \"", "assertion failed", "\")" >>,
      << "VERIFIER_EXPECT:", " should_panic", "(expected = \"", "with ", "overflow" >> }
PanicLines ==
    { << "thread 'main'", PANICKED_AT, "X", QUOTE_COMMA_SPACE, "src/main.rs:1:1" >>,
      << "thread 'main'", PANICKED_AT, "Y", QUOTE_COMMA_SPACE, "src/main.rs:1:1" >>,
      << "thread 'main'", PANICKED_AT, "assertion failed", ": ", "X", QUOTE_COMMA_SPACE,
         "src/main.rs:1:1" >>,
      << "thread 'main'", PANICKED_AT, "attempt to add ", "with ", "overflow",
         QUOTE_COMMA_SPACE, "src/main.rs:1:1" >> }
KleeOwnLines ==
    { << "KLEE:", " HaltTimer invoked" >>,
      << "KLEE:", " halting execution, dumping remaining states" >>,
      << "KLEE:", " ERROR:", " Could not link" >>,
      << "KLEE:", " ERROR:", " Unable to load symbol" >>,
      << "KLEE:", " ERROR:", " src/main.rs:1: reached ", "unreachable", " instruction" >>,
      << "KLEE:", " ERROR:", " src/main.rs:1: ", "overflow", " on addition" >>,
      << "KLEE:", " ERROR:", " src/main.rs:1: abort failure" >>,
      << "KLEE:", " ERROR:", " ", "thread 'main'", PANICKED_AT, "X", QUOTE_COMMA_SPACE,
         "src/main.rs:1:1" >>,
      << "KLEE:", " done:", " ", "completed paths", " ", "= ", "42" >>,
      << "KLEE:", " done:", " ", "generated tests" >> }
OtherLines ==
    { << "verification failed" >>,
      << "note: run with RUST_BACKTRACE=1", " environment variable to display a backtrace" >>,
      << "hello" >> }
KleeLines == ExpectLines \cup PanicLines \cup KleeOwnLines \cup OtherLines
SeahornLines ==
    { SHOULD_PANIC,
      << "VERIFIER_EXPECT:", " should_panic", "(expected = \"", "X", "\")" >>,
      << "thread 'main'", PANICKED_AT, "X", QUOTE_COMMA_SPACE, "src/main.rs:1:1" >>,
      << "thread 'main'", PANICKED_AT, "Y", QUOTE_COMMA_SPACE, "src/main.rs:1:1" >>,
      << "thread 'main'", PANICKED_AT, "assertion failed", ": ", "X", QUOTE_COMMA_SPACE,
         "src/main.rs:1:1" >>,
      SAT, UNSAT,
      << "hello" >> }
LinesOf(b) == IF b = "Seahorn" THEN SeahornLines ELSE KleeLines

\* The sequences of at most n lines over S.
SeqsUpTo(S, n) == UNION {[1..k -> S] : k \in 0..n}

\* The captured outputs of one backend run: KLEE's stdout is only logged
\* (klee.rs:289), so just its stderr varies; Seahorn's stdout is scanned.
Outputs(b, n) ==
    IF b = "Seahorn"
    THEN {o \in [err : SeqsUpTo(SeahornLines, n), out : SeqsUpTo(SeahornLines, n)] :
              Len(o.err) + Len(o.out) <= n}
    ELSE [err : SeqsUpTo(KleeLines, n), out : {<< >>}]

-----------------------------------------------------------------------------
VARIABLES
    run_backend,  \* the backend whose run classifies the output
    stderr,       \* the captured standard error, a sequence of lines
    stdout,       \* the captured standard output
    run_pc,       \* where run is: expect, status, stats, returned, panicked
    pos,          \* the line the current loop is at
    expect,       \* let mut expect
    status,       \* let status, NoStatus until the scan has decided
    stats,        \* let stats
    verbosity,    \* opt.verbosity, the number of -v flags
    echoed,       \* the lines of stderr run has printed
    opt,          \* the parsed command line (struct Opt)
    pc,           \* where main / verify is
    bcfiles,      \* compile: the candidate bitcode files and those defining main
    c_files,      \* compile: whether build scripts left native object files
    rust_file,    \* verify: the one candidate kept
    bcfile,       \* verify: let mut bcfile
    tests,        \* verify: the resolved entries, pairs (name, entry)
    next_test,    \* verify: the entry the for loop is at
    passes,       \* verify: let mut passes
    fails,        \* verify: let mut fails
    failure,      \* verify: let mut failure, an Option<Status>
    invoked,      \* per entry, how often verifier_run was called for it
    started,      \* per entry, how often the backend subprocess was started on it
    yielded,      \* per entry, the statuses verifier_run returned for it
    exec_failed,  \* the entries whose backend invocation failed to execute
    reported,     \* the line "test result: ..." once printed
    aggregate,    \* the status main receives, NoStatus before
    exit_code,    \* the exit code of the process, -1 while it runs
    logged,       \* verify: the error! message of the candidate selection, if any
    steps,        \* the external build steps run so far: step, input, output, ok
    handed,       \* per entry, the artifacts verifier_run was called with
    symtab,       \* the symbol table llvm-nm prints for rust_file, when it is known
    listing,      \* what cargo test lists and the substrings of --test, when known
    v_pc,         \* where the adapter's verify is: idle, remove, run, list, replay
    outdir,       \* whether the scratch output directory of the entry exists
    outfiles,     \* the files of that directory
    ktests,       \* verify: the test inputs still to replay
    replayed,     \* the test inputs replay_klee was called on, with the result
    launched,     \* whether the backend subprocess was started in this call
    dirs_x,       \* day1: a string of directions
    dirs_y,       \* day1: a second string
    pushed,       \* day1: a character
    santa_out,    \* day1: the values santa and underground_santa returned
    presents,     \* day2: the list of presents, without the repetition of its head
    copies,       \* day2: how many times the head of the list stands at its front
    overflow_checks, \* day2: whether the build checks the arithmetic (debug) or wraps it
    totals        \* day2: what wrap and ribbon returned

run_vars == << run_backend, stderr, stdout, run_pc, pos, expect, status, stats,
              verbosity, echoed >>
main_vars == << opt, pc, bcfiles, c_files, rust_file, bcfile, tests, next_test, passes,
                fails, failure, invoked, started, yielded, exec_failed, reported,
                aggregate,
                exit_code, logged, steps, handed >>
resolve_vars == << symtab, listing >>
verify_vars == << v_pc, outdir, outfiles, ktests, replayed, launched >>
santa_vars == << dirs_x, dirs_y, pushed, santa_out >>
present_vars == << presents, copies, overflow_checks, totals >>
ext_vars == << resolve_vars, verify_vars, santa_vars, present_vars >>
vars == << run_vars, main_vars, ext_vars >>

\* The symbol table and the listing are not known before they are read.
ResolveIdle ==
    /\ symtab = << >>
    /\ listing = [listed |-> {}, test |-> {}]

\* Nothing of day1 is called.
SantaIdle ==
    /\ dirs_x = << >>
    /\ dirs_y = << >>
    /\ pushed = "("
    /\ santa_out = [part1 |-> << >>, part2 |-> << >>]

\* Nothing of day2 is called.
PresentIdle ==
    /\ presents = << >>
    /\ copies = 1
    /\ overflow_checks = TRUE
    /\ totals = [wrap |-> << >>, ribbon |-> << >>]

\* No adapter is called.
VerifyIdle ==
    /\ v_pc = "idle"
    /\ outdir = "absent"
    /\ outfiles = {}
    /\ ktests = << >>
    /\ replayed = << >>
    /\ launched = FALSE

\* The driver at rest, for the specification of one run of a classifier.
MainIdle ==
    /\ opt = [backend |-> "Klee", args |-> FALSE, replay |-> 0, tests |-> FALSE,
              clean |-> FALSE, crate_path |-> "."]
    /\ pc = "idle"
    /\ bcfiles = [found |-> {}, main |-> {}]
    /\ c_files = FALSE
    /\ rust_file = << >>
    /\ bcfile = << >>
    /\ tests = << >>
    /\ next_test = 1
    /\ passes = 0
    /\ fails = 0
    /\ failure = NoStatus
    /\ invoked = << >>
    /\ started = << >>
    /\ yielded = << >>
    /\ exec_failed = {}
    /\ reported = << >>
    /\ aggregate = NoStatus
    /\ exit_code = -1
    /\ logged = NoneStr
    /\ steps = << >>
    /\ handed = << >>

\* The classifier at rest, for the specification of the driver.
RunIdle ==
    /\ run_backend = "Klee"
    /\ stderr = << >>
    /\ stdout = << >>
    /\ run_pc = "idle"
    /\ pos = 1
    /\ expect = NoneStr
    /\ status = NoStatus
    /\ stats = << >>
    /\ verbosity = 0
    /\ echoed = << >>

\* The state once the subprocess has ended successfully and its output is
\* captured (klee.rs:193-201, seahorn.rs:117-120).
RunInit ==
    /\ run_backend \in {"Klee", "Seahorn"}
    /\ \E o \in Outputs(run_backend, MaxLines) : stderr = o.err /\ stdout = o.out
    /\ run_pc = "expect"
    /\ pos = 1
    /\ expect = NoneStr
    /\ status = NoStatus
    /\ stats = << >>
    /\ verbosity = 0
    /\ echoed = << >>
    /\ MainIdle
    /\ ResolveIdle
    /\ VerifyIdle
    /\ SantaIdle
    /\ PresentIdle

\* One turn of the loop "Scan for expectation message" (klee.rs:210-221,
\* seahorn.rs:136-147).
run_expect_line ==
    /\ run_pc = "expect"
    /\ pos <= Len(stderr)
    /\ expect' = expect_step(expect, stderr[pos])
    /\ pos' = pos + 1
    /\ UNCHANGED << run_backend, stderr, stdout, run_pc, status, stats, verbosity, echoed, main_vars, ext_vars >>

\* The end of that loop: the status scan starts at the first line.
run_expect_end ==
    /\ run_pc = "expect"
    /\ pos > Len(stderr)
    /\ run_pc' = "status"
    /\ pos' = 1
    /\ UNCHANGED << run_backend, stderr, stdout, expect, status, stats, verbosity, echoed, main_vars, ext_vars >>

\* One line of find_map (klee.rs:224-263, seahorn.rs:150-169): a line that
\* decides ends the scan, any other line is passed over.
run_status_line ==
    /\ run_pc = "status"
    /\ pos <= Len(status_lines(run_backend, stderr, stdout))
    /\ LET s == line_status(run_backend, status_lines(run_backend, stderr, stdout)[pos], expect)
       IN  IF s # NoStatus
           THEN status' = s /\ run_pc' = "stats" /\ pos' = pos
           ELSE status' = status /\ run_pc' = run_pc /\ pos' = pos + 1
    /\ UNCHANGED << run_backend, stderr, stdout, expect, stats, verbosity, echoed, main_vars, ext_vars >>

\* No line decided: unwrap_or_else gives Unknown (klee.rs:264-267,
\* seahorn.rs:170-173).
run_status_none ==
    /\ run_pc = "status"
    /\ pos > Len(status_lines(run_backend, stderr, stdout))
    /\ status' = "Unknown"
    /\ run_pc' = "stats"
    /\ UNCHANGED << run_backend, stderr, stdout, pos, expect, stats, verbosity, echoed, main_vars, ext_vars >>

\* KLEE: the statistics are collected, run returns (status, stats), or the
\* unwrap of the parse panics (klee.rs:271-298).
run_klee_stats ==
    /\ run_pc = "stats"
    /\ run_backend = "Klee"
    /\ LET r == klee_stats(stderr, << >>)
       IN  IF r.panicked
           THEN run_pc' = "panicked" /\ stats' = stats /\ echoed' = echoed
           ELSE /\ run_pc' = "returned"
                /\ stats' = r.map
                /\ echoed' = echo(run_backend, stderr, expect, verbosity)
    /\ UNCHANGED << run_backend, stderr, stdout, pos, expect, status, verbosity, main_vars, ext_vars >>

\* Seahorn: no statistics, run returns status (seahorn.rs:175-188).
run_seahorn_return ==
    /\ run_pc = "stats"
    /\ run_backend = "Seahorn"
    /\ run_pc' = "returned"
    /\ echoed' = echo(run_backend, stderr, expect, verbosity)
    /\ UNCHANGED << run_backend, stderr, stdout, pos, expect, status, stats, verbosity, main_vars, ext_vars >>

RunNext ==
    \/ run_expect_line
    \/ run_expect_end
    \/ run_status_line
    \/ run_status_none
    \/ run_klee_stats
    \/ run_seahorn_return

\* The classification of one captured output, line by line.
SpecRun == RunInit /\ [][RunNext]_vars

\* Lines put together from the literals the closure of KLEE's run tests, at
\* most n of them one after the other.
Parts ==
    { KLEE_HALT_TIMER, KLEE_COULD_NOT_LINK, KLEE_UNABLE_TO_LOAD, KLEE_ERROR, UNREACHABLE,
      OVERFLOW, ASSERTION_FAILED, WITH_OVERFLOW, KLEE_DONE_LIT, << " x" >> }
RECURSIVE Flatten(_)
Flatten(ps) == IF ps = << >> THEN << >> ELSE Head(ps) \o Flatten(Tail(ps))
PartLines(n) == {Flatten(ps) : ps \in SeqsUpTo(Parts, n) \ {<< >>}}

\* run on an output of one line, after at most one marker line.
LineInit ==
    /\ run_backend \in {"Klee", "Seahorn"}
    /\ \E m \in {<< >>} \cup {<< e >> : e \in ExpectLines} :
         \E l \in (IF run_backend = "Klee" THEN PartLines(MaxParts) ELSE SeahornLines) :
            stderr = m \o << l >>
    /\ stdout = << >>
    /\ run_pc = "expect"
    /\ pos = 1
    /\ expect = NoneStr
    /\ status = NoStatus
    /\ stats = << >>
    /\ verbosity = 0
    /\ echoed = << >>
    /\ MainIdle
    /\ ResolveIdle
    /\ VerifyIdle
    /\ SantaIdle
    /\ PresentIdle

\* The classification of one line, for every line of the universe.
SpecLine == LineInit /\ [][RunNext]_vars

\* More lines that importance tells apart.
KleeEchoLines ==
    { << "warning: Linking two modules of different data layouts" >>,
      << "KLEE:", " WARNING:", " undefined reference to function: f" >>,
      << "KLEE:", " WARNING ONCE:", " calling external: f" >>,
      << "KLEE:", " output directory", " is kleeout-main" >>,
      << "KLEE:", " Using", " STP solver backend" >>,
      << "KLEE:", " NOTE:", " Using POSIX model" >>,
      << "KLEE:", " NOTE:", " now ignoring this error at this location" >>,
      << "KLEE:", " something else" >> }
SeahornEchoLines ==
    { << "Warning:", " Externalizing function:", " f" >>,
      << "Warning:", " not lowering an initializer for a global struct:", " g" >>,
      << "Warning:", " something else" >> }
EchoLinesOf(b) ==
    IF b = "Seahorn" THEN SeahornLines \cup SeahornEchoLines ELSE KleeLines \cup KleeEchoLines

\* run on a captured output, at every verbosity.
EchoInit ==
    /\ run_backend \in {"Klee", "Seahorn"}
    /\ stderr \in SeqsUpTo(EchoLinesOf(run_backend), MaxEchoLines)
    /\ stdout \in (IF run_backend = "Seahorn" THEN {<< >>, << SAT >>, << UNSAT >>} ELSE {<< >>})
    /\ run_pc = "expect"
    /\ pos = 1
    /\ expect = NoneStr
    /\ status = NoStatus
    /\ stats = << >>
    /\ verbosity \in 0..MaxVerbosity
    /\ echoed = << >>
    /\ MainIdle
    /\ ResolveIdle
    /\ VerifyIdle
    /\ SantaIdle
    /\ PresentIdle

\* The classification and the echo of one captured output.
SpecEcho == EchoInit /\ [][RunNext]_vars

\* Marker lines whose text holds a pattern of the tables, and a few lines to
\* come before and after them.
MarkerTextLines(b) ==
    { SHOULD_PANIC,
      << "VERIFIER_EXPECT:", " should_panic", "(expected = \"", "X", "\")" >>,
      << "VERIFIER_EXPECT:", " should_panic", "(expected = \"", "assertion failed", "\")" >>,
      << "VERIFIER_EXPECT:", " should_panic", "(expected = \"", "attempt to add ", "with ",
         "overflow", "\")" >>,
      << "VERIFIER_EXPECT:", " should_panic", "(expected = \"", "thread 'main'", PANICKED_AT,
         "X", QUOTE_COMMA_SPACE, "src/main.rs:1:1", "\")" >>,
      << "thread 'main'", PANICKED_AT, "X", QUOTE_COMMA_SPACE, "src/main.rs:1:1" >>,
      << "hello" >> }
    \cup (IF b = "Seahorn" THEN { SAT, UNSAT }
          ELSE { << "VERIFIER_EXPECT:", " ", "KLEE:", " done:", " ", "generated tests" >>,
                 << "KLEE:", " done:", " ", "generated tests" >> })

\* run on a captured output with such marker lines.
MarkerInit ==
    /\ run_backend \in {"Klee", "Seahorn"}
    /\ \E o \in (IF run_backend = "Seahorn"
                 THEN {t \in [err : SeqsUpTo(MarkerTextLines(run_backend), MaxLines),
                              out : SeqsUpTo(MarkerTextLines(run_backend), 1)] :
                          Len(t.err) + Len(t.out) <= MaxLines}
                 ELSE [err : SeqsUpTo(MarkerTextLines(run_backend), MaxLines), out : {<< >>}]) :
          stderr = o.err /\ stdout = o.out
    /\ run_pc = "expect"
    /\ pos = 1
    /\ expect = NoneStr
    /\ status = NoStatus
    /\ stats = << >>
    /\ verbosity = 0
    /\ echoed = << >>
    /\ MainIdle
    /\ ResolveIdle
    /\ VerifyIdle
    /\ SantaIdle
    /\ PresentIdle

\* The classification of one captured output with marker lines.
SpecMarker == MarkerInit /\ [][RunNext]_vars

\* The verbosity is a usize counting the -v flags (main.rs:70-72): counts
\* around the ends of the range of an i8 and of a u8.
ManyFlags == {0, 1, 127, 128, 129, 255, 256, 257, 384}

\* Lines of every rank from -1 to 5 of KLEE, and a few lines of Seahorn.
FlaggedLines(b) ==
    IF b = "Seahorn"
    THEN { SAT, UNSAT, << "Warning:", " something else" >>, << "hello" >> }
    ELSE { << "KLEE:", " ERROR:", " Could not link" >>,
           << "KLEE:", " ERROR:", " Unable to load symbol" >>,
           << "KLEE:", " ERROR:", " src/main.rs:1: abort failure" >>,
           << "KLEE:", " WARNING:", " undefined reference to function: f" >>,
           << "KLEE:", " done:", " ", "generated tests" >>,
           << "verification failed" >>,
           << "hello" >> }

\* run on a captured output, with any number of -v flags.
FlagsInit ==
    /\ run_backend \in {"Klee", "Seahorn"}
    /\ stderr \in SeqsUpTo(FlaggedLines(run_backend), MaxEchoLines)
    /\ stdout = << >>
    /\ run_pc = "expect"
    /\ pos = 1
    /\ expect = NoneStr
    /\ status = NoStatus
    /\ stats = << >>
    /\ verbosity \in ManyFlags
    /\ echoed = << >>
    /\ MainIdle
    /\ ResolveIdle
    /\ VerifyIdle
    /\ SantaIdle
    /\ PresentIdle

\* The classification and the echo of one captured output, at any number of
\* -v flags.
SpecFlags == FlagsInit /\ [][RunNext]_vars


-----------------------------------------------------------------------------
\* The driver: main and verify of main.rs.

\* Paths are sequences of the parts a dot separates: pkg-a.bc is (pkg-a, bc).
\* PathBuf::set_extension replaces the last part.
set_extension(path, ext) == SubSeq(path, 1, Len(path) - 1) \o ext
LINKED_BC == << "linked", "bc" >>
BcNames == { << "/target/host/debug/deps/pkg-a", "bc" >>,
             << "/target/host/debug/deps/pkg-b", "bc" >> }
NoPath == << >>

\* The directories: the one the process runs in, and the values of the PATH
\* argument (opt.crate_path), which may or may not name that directory.
CWD == "."
CratePaths == {".", "crate"}
\* The files compile finds are under the target directory cargo metadata
\* reports, an absolute path; linked.bc is a relative path.
IsAbsolute(path) == path # NoPath /\ path[1] \in {bc[1] : bc \in BcNames}
\* The file a command started in directory dir reaches under the name path.
File(path, dir) == [dir |-> IF IsAbsolute(path) THEN "/" ELSE dir, path |-> path]

\* The defined text symbols llvm-nm can list, each with the name it demangles to.
NmSymbols ==
    { [sym |-> "_ZN3pkg2t117h1E", dname |-> "t1"],
      [sym |-> "_ZN3pkg2t117h2E", dname |-> "t1"],
      [sym |-> "_ZN3pkg2t217h3E", dname |-> "t2"],
      [sym |-> "_ZN3pkg4main17h4E", dname |-> "pkg::main"],
      [sym |-> "_ZN3pkg4main17h5E", dname |-> "pkg::main"] }
TestNames == {"t1", "t2"}
PackageMain == "pkg::main"

\* The symbol tables: sequences of distinct symbols.
NmTables(n) ==
    {t \in SeqsUpTo(NmSymbols, n) : \A i, j \in 1..Len(t) : i # j => t[i] # t[j]}

\* The filter_map keeping every listed symbol, requested or not.
mangle_found_any(nm, names) ==
    [i \in 1..Len(nm) |-> [name |-> nm[i].dname, entry |-> nm[i].sym]]

\* The filter_map of mangle_functions (main.rs:578-602): the pairs (demangled
\* name, symbol) of the listed symbols whose demangled name is requested.
RECURSIVE mangle_found(_, _)
mangle_found(nm, names) ==
    IF nm = << >> THEN << >>
    ELSE (IF Head(nm).dname \in names
          THEN << [name |-> Head(nm).dname, entry |-> Head(nm).sym] >>
          ELSE << >>) \o mangle_found(Tail(nm), names)

\* let missing = names.len() - rs.len() (main.rs:608), before the usize wraps.
mangle_missing(nm, names) == Cardinality(names) - Len(mangle_found(nm, names))

\* The match on bcs.as_slice() picking the first candidate whenever there is one.
select_rust_file_first(bcs) ==
    IF bcs # {} THEN Some(CHOOSE bc \in bcs : TRUE) ELSE NoneStr

\* The match on bcs.as_slice() (main.rs:972-988): the one candidate that
\* defines main, None when there is none or more than one.
select_rust_file(bcs) ==
    IF Cardinality(bcs) = 1 THEN Some(CHOOSE bc \in bcs : TRUE) ELSE NoneStr

USE_TESTS == "  FAILED: Use --tests with library crates"
COMPILATION_ERROR == "  FAILED: Test {} compilation error"

\* The message of the failed selection, the same with and without tests.
select_error_same(bcs, tests_requested) == COMPILATION_ERROR

\* The error! of the arms of that match that return Status::Unknown
\* (main.rs:974-986).
select_error(bcs, tests_requested) ==
    IF bcs = {} /\ tests_requested THEN USE_TESTS ELSE COMPILATION_ERROR

\* The option checks of main with the Seahorn checks left out.
main_rejects_proptest_only(o) ==
    o.backend = "Proptest" /\ o.replay > 0 /\ o.args

\* The option checks of main with the Proptest check left out.
main_rejects_seahorn_only(o) ==
    \/ o.backend = "Seahorn" /\ o.args
    \/ o.backend = "Seahorn" /\ o.replay # 0

\* The option checks of main (main.rs:108-124): TRUE when main exits with 1.
main_rejects(o) ==
    \/ o.backend = "Proptest" /\ o.replay > 0 /\ o.args
    \/ o.backend = "Seahorn" /\ o.args
    \/ o.backend = "Seahorn" /\ o.replay # 0

\* The loop body counting an Unknown entry as neither a pass nor a failure.
tally_unknown_skipped(acc, st) ==
    IF st = "Verified" THEN [acc EXCEPT !.passes = @ + 1]
    ELSE IF st = "Unknown" THEN acc
    ELSE [acc EXCEPT !.fails = @ + 1, !.failure = st]

\* The loop body keeping the first failure instead of the last.
tally_first_failure(acc, st) ==
    IF st = "Verified" THEN [acc EXCEPT !.passes = @ + 1]
    ELSE [acc EXCEPT !.fails = @ + 1, !.failure = IF @ = NoStatus THEN st ELSE @]

\* The body of the for loop of verify after verifier_run (main.rs:1080-1087).
tally(acc, st) ==
    IF st = "Verified" THEN [acc EXCEPT !.passes = @ + 1]
    ELSE [acc EXCEPT !.fails = @ + 1, !.failure = st]

\* The match on failure letting an Unknown entry through.
verify_result_unknown_passes(f) == IF f \notin {NoStatus, "Unknown"} THEN f ELSE "Verified"

\* The match on failure (main.rs:1090-1097): the status verify returns.
verify_result(f) == IF f # NoStatus THEN f ELSE "Verified"

\* The end of main exiting with 1 only for Error.
main_exit_code_error_only(st) == IF st = "Error" THEN 1 ELSE 0

\* The end of main (main.rs:159-162): exit(1) unless the status is Verified.
main_exit_code(st) == IF st # "Verified" THEN 1 ELSE 0

\* run_proptest taking any mention of an overflow for an arithmetic overflow.
proptest_status_any_overflow(success, err) ==
    IF ~success
    THEN (IF \E i \in 1..Len(err) : contains(err[i], OVERFLOW) THEN "Overflow" ELSE "Error")
    ELSE "Verified"

\* Status of run_proptest (main.rs:276-288) from the exit of cargo test and
\* its stderr.
proptest_status(success, err) ==
    IF ~success
    THEN (IF \E i \in 1..Len(err) : contains(err[i], WITH_OVERFLOW) THEN "Overflow" ELSE "Error")
    ELSE "Verified"

build_vars == << bcfiles, c_files, rust_file, bcfile >>
loop_vars == << tests, next_test, passes, fails, failure, invoked, started, yielded,
               exec_failed >>

MainInit ==
    /\ opt \in [backend : {"Proptest", "Klee", "Seahorn"}, args : BOOLEAN,
                replay : 0..MaxReplay, tests : BOOLEAN, clean : BOOLEAN,
                crate_path : CratePaths]
    /\ pc = "main"
    /\ bcfiles = [found |-> {}, main |-> {}]
    /\ c_files = FALSE
    /\ rust_file = NoPath
    /\ bcfile = NoPath
    /\ tests = << >>
    /\ next_test = 1
    /\ passes = 0
    /\ fails = 0
    /\ failure = NoStatus
    /\ invoked = << >>
    /\ started = << >>
    /\ yielded = << >>
    /\ exec_failed = {}
    /\ reported = << >>
    /\ aggregate = NoStatus
    /\ exit_code = -1
    /\ logged = NoneStr
    /\ steps = << >>
    /\ handed = << >>
    /\ RunIdle
    /\ ResolveIdle
    /\ VerifyIdle
    /\ SantaIdle
    /\ PresentIdle

\* process::exit(code), or a panic (code 101): the process is over.
Exit(code) ==
    /\ exit_code' = code
    /\ pc' = "exited"

\* verify going on to the loop where it returns.
Return_and_go_on(st) ==
    /\ aggregate' = st
    /\ pc' = "loop"

\* verify returns st to main before the loop (return Status::Unknown).
Return(st) ==
    /\ aggregate' = st
    /\ pc' = "result"

\* An external build step was run: it is added to the steps run so far.
Step(name, in, out, ok) ==
    steps' = Append(steps, [step |-> name, input |-> in, output |-> out, ok |-> ok])

\* verify, main.rs:1059: the program under test receives arguments.
needs_initializers(o) == o.args

\* main.rs:108-124
main_check_options ==
    /\ pc = "main"
    /\ IF main_rejects(opt) THEN Exit(1) ELSE pc' = "package" /\ exit_code' = exit_code
    /\ UNCHANGED << opt, logged, steps, handed, build_vars, loop_vars, reported, aggregate, run_vars, ext_vars >>

\* main.rs:133-142: cargo clean (its error is discarded), then
\* get_meta_package_name, whose unwraps panic when the metadata cannot be read.
main_package_name ==
    /\ pc = "package"
    /\ \E ok \in BOOLEAN :
         IF ok
         THEN /\ pc' = (IF opt.backend = "Proptest" THEN "proptest" ELSE "host")
              /\ exit_code' = exit_code
         ELSE Exit(101)
    /\ steps' = (IF opt.clean
                 THEN Append(steps, [step |-> "clean", input |-> NoPath, output |-> NoPath,
                                     ok |-> TRUE])
                 ELSE steps)
    /\ UNCHANGED << opt, logged, handed, build_vars, loop_vars, reported, aggregate, run_vars, ext_vars >>

\* main.rs:146-149 and run_proptest (main.rs:230-289, proptest.rs:15-62).  The
\* standard error of cargo test is kept in stderr.
run_proptest ==
    /\ pc = "proptest"
    /\ \/ /\ opt.replay > 0 /\ opt.args            \* assert!(opt.args.is_empty())
          /\ Exit(101)
          /\ UNCHANGED << aggregate, steps, stderr >>
       \/ /\ ~(opt.replay > 0 /\ opt.args)
          /\ \/ /\ Exit(101)                          \* cargo cannot be executed
                /\ Step("cargo test", NoPath, NoPath, FALSE)
                /\ UNCHANGED << aggregate, stderr >>
             \/ \E success \in BOOLEAN :              \* the output is not UTF-8
                   /\ Exit(101)
                   /\ Step("cargo test", NoPath, NoPath, success)
                   /\ UNCHANGED << aggregate, stderr >>
             \/ \E success \in BOOLEAN, o \in Outputs("Klee", MaxEntryLines) :
                   /\ Return(proptest_status(success, o.err))
                   /\ Step("cargo test", NoPath, NoPath, success)
                   /\ stderr' = o.err
                   /\ UNCHANGED exit_code
    /\ UNCHANGED << opt, logged, handed, build_vars, loop_vars, reported, ext_vars >>
    /\ UNCHANGED << run_backend, stdout, run_pc, pos, expect, status, stats, verbosity, echoed >>

\* main.rs:151-152 and get_default_host (main.rs:291-306)
get_default_host ==
    /\ pc = "host"
    /\ \E r \in {"ok", "unsuccessful", "panic"} :
         IF r = "ok" THEN pc' = "compile" /\ exit_code' = exit_code
         ELSE IF r = "unsuccessful" THEN Exit(1)
         ELSE Exit(101)
    /\ UNCHANGED << opt, logged, steps, handed, build_vars, loop_vars, reported, aggregate, run_vars, ext_vars >>

\* verify, main.rs:962-966, and compile (main.rs:308-419)
verify_compile ==
    /\ pc = "compile"
    /\ \/ /\ Exit(101)                               \* cargo cannot be executed
          /\ Step("compile", NoPath, NoPath, FALSE)
          /\ UNCHANGED << aggregate, bcfiles, c_files >>
       \/ /\ Return("Unknown")                       \* compile returns None
          /\ Step("compile", NoPath, NoPath, FALSE)
          /\ UNCHANGED << exit_code, bcfiles, c_files >>
       \/ /\ \E found \in SUBSET BcNames, c \in BOOLEAN :
               /\ \E main \in SUBSET found : bcfiles' = [found |-> found, main |-> main]
               /\ c_files' = c
          /\ pc' = "select"
          /\ Step("compile", NoPath, NoPath, TRUE)
          /\ UNCHANGED << exit_code, aggregate >>
    /\ UNCHANGED << opt, logged, handed, rust_file, bcfile, loop_vars, reported, run_vars, ext_vars >>

\* verify, main.rs:968-988: count_symbols (main.rs:422-447) on each candidate,
\* whose expect panics when llvm-nm cannot be executed, and the match on the
\* candidates that define main.
verify_select ==
    /\ pc = "select"
    /\ \/ /\ bcfiles.found # {}
          /\ Exit(101)
          /\ UNCHANGED << rust_file, aggregate, logged >>
       \/ IF select_rust_file(bcfiles.main) # NoneStr
          THEN /\ rust_file' = select_rust_file(bcfiles.main)[1]
               /\ pc' = "link"
               /\ UNCHANGED << aggregate, exit_code, logged >>
          ELSE /\ logged' = Some(select_error(bcfiles.main, opt.tests))
               /\ Return("Unknown")
               /\ UNCHANGED << rust_file, exit_code >>
    /\ UNCHANGED << opt, steps, handed, bcfiles, c_files, bcfile, loop_vars, reported, run_vars, ext_vars >>

\* verify, main.rs:990-1002, and link (main.rs:450-470), which runs llvm-link
\* in opt.crate_path
verify_link ==
    /\ pc = "link"
    /\ IF c_files
       THEN \/ /\ Exit(101)                          \* llvm-link cannot be executed
               /\ Step("link", File(rust_file, opt.crate_path), File(LINKED_BC, opt.crate_path), FALSE)
               /\ UNCHANGED << bcfile, aggregate >>
            \/ /\ Return("Unknown")
               /\ Step("link", File(rust_file, opt.crate_path), File(LINKED_BC, opt.crate_path), FALSE)
               /\ UNCHANGED << bcfile, exit_code >>
            \/ /\ bcfile' = LINKED_BC
               /\ pc' = "patch"
               /\ Step("link", File(rust_file, opt.crate_path), File(LINKED_BC, opt.crate_path), TRUE)
               /\ UNCHANGED << aggregate, exit_code >>
       ELSE bcfile' = rust_file /\ pc' = "patch" /\ UNCHANGED << aggregate, exit_code, steps >>
    /\ UNCHANGED << opt, logged, handed, bcfiles, c_files, rust_file, loop_vars, reported,
                    run_vars, ext_vars >>

\* verify, main.rs:1004-1014, and patch_llvm (main.rs:481-502), which runs
\* rvt-patch-llvm in the directory of the process (no current_dir)
verify_seahorn_patch ==
    /\ pc = "patch"
    /\ IF opt.backend = "Seahorn"
       THEN LET new_bcfile == set_extension(bcfile, << "patch", bcfile[Len(bcfile)] >>) IN
            \/ /\ Exit(101)                          \* rvt-patch-llvm cannot be executed
               /\ Step("seahorn patch", File(bcfile, CWD), File(new_bcfile, CWD), FALSE)
               /\ UNCHANGED << bcfile, aggregate >>
            \/ /\ Return("Unknown")
               /\ Step("seahorn patch", File(bcfile, CWD), File(new_bcfile, CWD), FALSE)
               /\ UNCHANGED << bcfile, exit_code >>
            \/ /\ bcfile' = new_bcfile
               /\ pc' = "resolve"
               /\ Step("seahorn patch", File(bcfile, CWD), File(new_bcfile, CWD), TRUE)
               /\ UNCHANGED << aggregate, exit_code >>
       ELSE pc' = "resolve" /\ UNCHANGED << bcfile, aggregate, exit_code, steps >>
    /\ UNCHANGED << opt, logged, handed, bcfiles, c_files, rust_file, loop_vars, reported,
                    run_vars, ext_vars >>

\* The entries are resolved: the for loop starts with nothing invoked.
Resolved(rs) ==
    /\ tests' = rs
    /\ invoked' = [i \in 1..Len(rs) |-> 0]
    /\ started' = [i \in 1..Len(rs) |-> 0]
    /\ yielded' = [i \in 1..Len(rs) |-> << >>]
    /\ handed' = [i \in 1..Len(rs) |-> << >>]
    /\ pc' = "initializers"

\* The names cargo test can list, by their characters, and the substrings
\* the option --test can carry.
TestChars == [t1 |-> << "t", "1" >>, t2 |-> << "t", "2" >>]
TestFilters == { << "1" >>, << "x" >> }
Listings == [listed : SUBSET TestNames, test : SUBSET TestFilters]

\* The listed tests kept whatever --test says.
filter_tests_unfiltered(listed, test) == listed

\* verify, main.rs:1021-1026: the listed tests, and with --test those of them
\* that contain one of its substrings.
filter_tests(listed, test) ==
    IF test # {}
    THEN {t \in listed : \E f \in test : contains(TestChars[t], f)}
    ELSE listed


\* mangle_functions (main.rs:549-615) on the names, and with as_main the
\* match on its result (main.rs:1039-1052): exit(1) when llvm-nm fails or
\* names are missing; names.len() - rs.len() is a usize, and with more symbols
\* than names it overflows (a panic, or a wrapped value above 0 and exit(1)).
\* With as_main the one pair found is the entry main.
mangle_functions(tables, names, as_main) ==
    \/ /\ Exit(101)                                  \* llvm-nm cannot be executed
       /\ UNCHANGED << tests, invoked, started, yielded, handed, aggregate, logged >>
    \/ /\ Exit(1)                                    \* llvm-nm fails
       /\ UNCHANGED << tests, invoked, started, yielded, handed, aggregate, logged >>
    \/ \E t \in tables :
         LET rs == mangle_found(t, names)
             missing == mangle_missing(t, names)
         IN  IF missing > 0
             THEN /\ logged' = Some("Unable to find {} tests in bytecode file")
                  /\ Exit(1)
                  /\ UNCHANGED << tests, invoked, started, yielded, handed, aggregate >>
             ELSE IF missing < 0
             THEN /\ \/ Exit(101) /\ logged' = logged
                     \/ Exit(1) /\ logged' = Some("Unable to find {} tests in bytecode file")
                  /\ UNCHANGED << tests, invoked, started, yielded, handed, aggregate >>
             ELSE IF ~as_main
             THEN Resolved(rs) /\ UNCHANGED << exit_code, aggregate, logged >>
             ELSE IF Len(rs) = 0
             THEN /\ logged' = Some("  FAILED: can't find the 'main' function")
                  /\ Return("Unknown")
                  /\ UNCHANGED << tests, invoked, started, yielded, handed, exit_code >>
             ELSE IF Len(rs) = 1
             THEN /\ Resolved(<< [name |-> "main", entry |-> rs[1].entry] >>)
                  /\ UNCHANGED << exit_code, aggregate, logged >>
             ELSE /\ logged' = Some("  FAILED: found more than one 'main' function")
                  /\ Return("Unknown")
                  /\ UNCHANGED << tests, invoked, started, yielded, handed, exit_code >>

\* verify, main.rs:1016-1057, with list_tests (main.rs:506-543), on the
\* listings cargo test may print and the tables llvm-nm may print.  opt.tests
\* stands for the condition opt.tests || !opt.test.is_empty().
resolve(listings, tables) ==
    /\ pc = "resolve"
    /\ IF opt.tests
       THEN \/ /\ Exit(101)                          \* cargo cannot be executed
               /\ UNCHANGED << tests, invoked, started, yielded, handed, aggregate, logged >>
            \/ \E ls \in listings :
                 LET names == filter_tests(ls.listed, ls.test) IN
                 IF names = {}
                 THEN /\ logged' = Some("No tests found")
                      /\ Return("Unknown")
                      /\ UNCHANGED << tests, invoked, started, yielded, handed, exit_code >>
                 ELSE mangle_functions(tables, names, FALSE)
       ELSE IF opt.backend = "Seahorn"
       THEN mangle_functions(tables, {PackageMain}, TRUE)
       ELSE /\ Resolved(<< [name |-> "main", entry |-> "main"] >>)
            /\ UNCHANGED << aggregate, exit_code, logged >>
    /\ UNCHANGED << opt, steps, build_vars, next_test, passes, fails, failure, exec_failed,
                    reported, run_vars, ext_vars >>

\* The step of verify when the listing and the symbol table are read.
verify_resolve == resolve(Listings, NmTables(MaxEntries))

\* The same step on the listing and the symbol table the state holds.
verify_resolve_known == resolve({listing}, {symtab})

\* verify, main.rs:1059-1066, with patch_llvm (main.rs:481-502)
verify_initializers ==
    /\ pc = "initializers"
    /\ IF needs_initializers(opt)
       THEN \/ /\ Exit(101)                          \* rvt-patch-llvm cannot be executed
               /\ Step("initializers patch", File(bcfile, CWD), File(LINKED_BC, CWD), FALSE)
               /\ UNCHANGED << bcfile, aggregate >>
            \/ /\ Return("Unknown")
               /\ Step("initializers patch", File(bcfile, CWD), File(LINKED_BC, CWD), FALSE)
               /\ UNCHANGED << bcfile, exit_code >>
            \/ /\ bcfile' = LINKED_BC
               /\ pc' = "loop"
               /\ Step("initializers patch", File(bcfile, CWD), File(LINKED_BC, CWD), TRUE)
               /\ UNCHANGED << aggregate, exit_code >>
       ELSE pc' = "loop" /\ UNCHANGED << bcfile, aggregate, exit_code, steps >>
    /\ UNCHANGED << opt, logged, handed, bcfiles, c_files, rust_file, loop_vars, reported,
                    run_vars, ext_vars >>

\* verifier_run returns st for the entry the loop is at, and the loop body
\* counts it (main.rs:1078-1087).  The backend is started in opt.crate_path
\* (main.rs:773-776, klee.rs:185-189, seahorn.rs:111-113) on bcfile.
Yield(st, spawned) ==
    /\ yielded' = [yielded EXCEPT ![next_test] = Append(@, st)]
    /\ invoked' = [invoked EXCEPT ![next_test] = @ + 1]
    /\ started' = [started EXCEPT ![next_test] = @ + (IF spawned THEN 1 ELSE 0)]
    /\ handed' = [handed EXCEPT ![next_test] = Append(@, File(bcfile, opt.crate_path))]
    /\ LET acc == tally([passes |-> passes, fails |-> fails, failure |-> failure], st)
       IN  passes' = acc.passes /\ fails' = acc.fails /\ failure' = acc.failure
    /\ next_test' = next_test + 1
    /\ UNCHANGED << pc, exit_code, exec_failed >>

\* The process ends inside verifier_run: nothing is returned for the entry.
Abort(code, spawned, failed_to_execute) ==
    /\ Exit(code)
    /\ invoked' = [invoked EXCEPT ![next_test] = @ + 1]
    /\ started' = [started EXCEPT ![next_test] = @ + (IF spawned THEN 1 ELSE 0)]
    /\ handed' = [handed EXCEPT ![next_test] = Append(@, File(bcfile, opt.crate_path))]
    /\ exec_failed' = IF failed_to_execute THEN exec_failed \cup {next_test} ELSE exec_failed
    /\ UNCHANGED << yielded, passes, fails, failure, next_test >>

\* klee_verify (main.rs:877-943, klee.rs:16-98) with klee_run (main.rs:750-875,
\* klee.rs:156-298) and replay_klee (main.rs:618-657, klee.rs:301-338)
klee_verify ==
    \/ Yield("Unknown", FALSE)         \* kleedir exists and cannot be removed
    \/ Abort(101, FALSE, TRUE)         \* klee cannot be executed: expect panics
    \/ Abort(1, TRUE, TRUE)            \* klee terminated unsuccessfully: exit(1)
    \/ \E o \in Outputs("Klee", MaxEntryLines) :
         LET st == scan_status("Klee", o.err, o.out)
             r == klee_stats(o.err, << >>)
         IN  IF r.panicked \/ klee_verify_stats_panics(r.map)
             THEN Abort(101, TRUE, FALSE)
             ELSE \/ Yield(st, TRUE)                \* nothing to replay, or every replay runs
                  \/ /\ opt.replay > 0              \* a replay of a test input fails
                     /\ (Abort(1, TRUE, FALSE) \/ Abort(101, TRUE, FALSE))

\* seahorn_verify (main.rs:945-947) is todo!(): it panics.
seahorn_verify == Abort(101, FALSE, FALSE)

\* One turn of the for loop of verify (main.rs:1077-1088) with verifier_run
\* (main.rs:949-955).
verifier_run ==
    /\ pc = "loop"
    /\ next_test <= Len(tests)
    /\ IF opt.backend = "Klee" THEN klee_verify ELSE seahorn_verify
    /\ UNCHANGED << opt, logged, steps, build_vars, tests, reported, aggregate, run_vars, ext_vars >>

\* verify, main.rs:1090-1100: the result line is printed, the status returned.
verify_report ==
    /\ pc = "loop"
    /\ next_test > Len(tests)
    /\ reported' = << [passes |-> passes, fails |-> fails] >>
    /\ Return(verify_result(failure))
    /\ UNCHANGED << opt, logged, steps, handed, build_vars, loop_vars, exit_code, run_vars, ext_vars >>

\* main.rs:157-162
main_exit ==
    /\ pc = "result"
    /\ Exit(main_exit_code(aggregate))
    /\ UNCHANGED << opt, logged, steps, handed, build_vars, loop_vars, reported, aggregate, run_vars, ext_vars >>

Next ==
    \/ main_check_options
    \/ main_package_name
    \/ run_proptest
    \/ get_default_host
    \/ verify_compile
    \/ verify_select
    \/ verify_link
    \/ verify_seahorn_patch
    \/ verify_resolve
    \/ verify_initializers
    \/ verifier_run
    \/ verify_report
    \/ main_exit

\* One run of cargo-verify.
Spec == MainInit /\ [][Next]_vars

\* verify at main.rs:1016, on a crate whose one candidate was compiled without
\* native code (and patched for Seahorn), with the listing of cargo test and
\* the symbol table of the candidate known.
ResolveInit ==
    LET a == << "/target/host/debug/deps/pkg-a", "bc" >>
        patched == set_extension(a, << "patch", "bc" >>)
        compiled == [step |-> "compile", input |-> NoPath, output |-> NoPath, ok |-> TRUE]
    IN
    /\ opt \in {o \in [backend : {"Klee", "Seahorn"}, args : BOOLEAN, replay : {0},
                       tests : BOOLEAN, clean : {FALSE}, crate_path : {CWD}] :
                  ~main_rejects(o)}
    /\ pc = "resolve"
    /\ bcfiles = [found |-> {a}, main |-> {a}]
    /\ c_files = FALSE
    /\ rust_file = a
    /\ bcfile = (IF opt.backend = "Seahorn" THEN patched ELSE a)
    /\ steps = (IF opt.backend = "Seahorn"
                THEN << compiled, [step |-> "seahorn patch", input |-> File(a, CWD),
                                   output |-> File(patched, CWD), ok |-> TRUE] >>
                ELSE << compiled >>)
    /\ tests = << >>
    /\ next_test = 1
    /\ passes = 0
    /\ fails = 0
    /\ failure = NoStatus
    /\ invoked = << >>
    /\ started = << >>
    /\ yielded = << >>
    /\ exec_failed = {}
    /\ reported = << >>
    /\ aggregate = NoStatus
    /\ exit_code = -1
    /\ logged = NoneStr
    /\ handed = << >>
    /\ symtab \in NmTables(MaxEntries)
    /\ listing \in Listings
    /\ RunIdle
    /\ VerifyIdle
    /\ SantaIdle
    /\ PresentIdle

ResolveNext ==
    \/ verify_resolve_known
    \/ verify_initializers
    \/ verifier_run
    \/ verify_report
    \/ main_exit

\* The rest of a run of cargo-verify from the resolution of the entries on.
SpecResolve == ResolveInit /\ [][ResolveNext]_vars


-----------------------------------------------------------------------------
\* The adapters: verify of klee.rs and of seahorn.rs, called for the entries
\* of the loop of the driver, step by step.

\* File names are sequences of the parts a dot separates.
\* Path::with_extension: the last part is replaced, or the extension added to
\* a name that has none; the empty extension removes the last part.
with_extension(path, ext) ==
    IF Len(path) > 1 THEN SubSeq(path, 1, Len(path) - 1) \o ext ELSE path \o ext

\* The files KLEE may leave in its output directory, in the order of their
\* names; each failing test has its input next to it.
KleeFileOrder ==
    << << "info" >>,
       << "test000001", "abort", "err" >>, << "test000001", "ktest" >>,
       << "test000002", "ktest" >>, << "test000002", "ptr", "err" >> >>
KleeFiles == {KleeFileOrder[i] : i \in 1..Len(KleeFileOrder)}
KleeDirs ==
    {fs \in SUBSET KleeFiles :
        \A f \in fs : f[Len(f)] = "err" => with_extension(with_extension(f, << >>), << "ktest" >>) \in fs}
HasTest(part) == part \in {"test000001", "test000002"}
\* TEST_ERR, test.*\.err$, and TEST_KTEST, test.*\.ktest$ (klee.rs:48-51)
TEST_ERR_is_match(f) ==
    Len(f) >= 2 /\ f[Len(f)] = "err" /\ \E i \in 1..(Len(f) - 1) : HasTest(f[i])
TEST_KTEST_is_match(f) ==
    Len(f) >= 2 /\ f[Len(f)] = "ktest" /\ \E i \in 1..(Len(f) - 1) : HasTest(f[i])

\* sort_unstable on a vector of file names
Count(v, f) == Cardinality({i \in 1..Len(v) : v[i] = f})
RECURSIVE Repeat(_, _)
Repeat(f, n) == IF n = 0 THEN << >> ELSE << f >> \o Repeat(f, n - 1)
RECURSIVE sort_from(_, _)
sort_from(v, k) ==
    IF k > Len(KleeFileOrder) THEN << >>
    ELSE Repeat(KleeFileOrder[k], Count(v, KleeFileOrder[k])) \o sort_from(v, k + 1)
sort_unstable(v) == sort_from(v, 1)

\* collect of a filter over read_dir: the files kept, in the order read
RECURSIVE AsSeq(_)
AsSeq(S) == IF S = {} THEN << >> ELSE LET f == CHOOSE x \in S : TRUE IN << f >> \o AsSeq(S \ {f})

\* verify, klee.rs:53-64: the files test*.err of the directory
failures(fs) == sort_unstable(AsSeq({f \in fs : TEST_ERR_is_match(f)}))

\* verify, klee.rs:67-89: the inputs to replay at a replay level
replay_inputs(level, fs) ==
    IF level > 0
    THEN sort_unstable(
           IF level > 1
           THEN AsSeq({f \in fs : TEST_KTEST_is_match(f)})
           ELSE [i \in 1..Len(failures(fs)) |->
                    with_extension(with_extension(failures(fs)[i], << >>), << "ktest" >>)])
    ELSE << >>

\* The check of the directory that lets every run start.
outdir_exists_ignored(d) == FALSE

\* kleedir.exists() (klee.rs:24, seahorn.rs:24)
outdir_exists(d) == d = "present"

\* What an adapter step leaves alone besides the loop and its own variables.
adapter_frame ==
    << opt, logged, steps, build_vars, tests, reported, aggregate, resolve_vars, santa_vars, present_vars,
       run_backend, stderr, stdout, run_pc, pos, expect, stats, verbosity, echoed >>
adapter_going_on ==
    << loop_vars, handed, pc, exit_code >>

\* verifier_run calls verify for the entry the loop is at (klee.rs:16-18,
\* seahorn.rs:16-18); a directory of an earlier run may be there.
adapter_enter ==
    /\ pc = "loop"
    /\ next_test <= Len(tests)
    /\ v_pc = "idle"
    /\ v_pc' = "remove"
    /\ outdir' \in {"absent", "present"}
    /\ outfiles' = {}
    /\ ktests' = << >>
    /\ replayed' = << >>
    /\ launched' = FALSE
    /\ status' = NoStatus
    /\ UNCHANGED << adapter_frame, adapter_going_on >>

\* klee.rs:20-30, seahorn.rs:20-30: remove_dir_all, its result ignored, and
\* the check that the directory is gone.
adapter_remove_outdir ==
    /\ pc = "loop"
    /\ v_pc = "remove"
    /\ \E removed \in BOOLEAN :
         outdir' = (IF outdir = "present" /\ ~removed THEN "present" ELSE "absent")
    /\ IF outdir_exists(outdir')
       THEN Yield("Unknown", FALSE) /\ v_pc' = "idle"
       ELSE v_pc' = "run" /\ UNCHANGED adapter_going_on
    /\ UNCHANGED << adapter_frame, status, outfiles, ktests, replayed, launched >>

\* run (klee.rs:156-298, seahorn.rs:69-188): the subprocess is started and its
\* output classified; KLEE leaves its files in the directory.
adapter_run ==
    /\ pc = "loop"
    /\ v_pc = "run"
    /\ \/ /\ Abort(101, FALSE, TRUE)                 \* the backend cannot be executed
          /\ UNCHANGED << status, outdir, outfiles, launched, v_pc >>
       \/ /\ opt.backend = "Klee"                    \* klee terminated unsuccessfully
          /\ launched' = TRUE
          /\ Abort(1, TRUE, TRUE)
          /\ \E fs \in KleeDirs : outfiles' = fs
          /\ outdir' = "present"
          /\ UNCHANGED << status, v_pc >>
       \/ \E o \in Outputs(opt.backend, MaxEntryLines) :
            /\ status' = scan_status(opt.backend, o.err, o.out)
            /\ launched' = TRUE
            /\ outdir' = "present"
            /\ IF opt.backend = "Klee"
               THEN LET r == klee_stats(o.err, << >>) IN
                    /\ \E fs \in KleeDirs : outfiles' = fs
                    /\ IF r.panicked \/ klee_verify_stats_panics(r.map)
                       THEN Abort(101, TRUE, FALSE) /\ v_pc' = v_pc
                       ELSE v_pc' = "list" /\ UNCHANGED adapter_going_on
               ELSE /\ outfiles' = {}
                    /\ Yield(status', TRUE)
                    /\ v_pc' = "idle"
    /\ UNCHANGED << adapter_frame, ktests, replayed >>

\* verify, klee.rs:48-89: the failing tests and the inputs to replay
adapter_list_inputs ==
    /\ pc = "loop"
    /\ v_pc = "list"
    /\ ktests' = replay_inputs(opt.replay, outfiles)
    /\ v_pc' = "replay"
    /\ UNCHANGED << adapter_frame, adapter_going_on, status, outdir, outfiles, replayed, launched >>

\* One turn of the loop over ktests (klee.rs:91-94) with replay_klee
\* (klee.rs:301-338): exit(1) when the replay ends unsuccessfully.
adapter_replay ==
    /\ pc = "loop"
    /\ v_pc = "replay"
    /\ ktests # << >>
    /\ \/ /\ Abort(101, launched, FALSE)                \* cargo cannot be executed
          /\ replayed' = Append(replayed, [ktest |-> Head(ktests), result |-> "not executed"])
          /\ UNCHANGED ktests
       \/ /\ Abort(1, launched, FALSE)
          /\ replayed' = Append(replayed, [ktest |-> Head(ktests), result |-> "unsuccessful"])
          /\ UNCHANGED ktests
       \/ /\ replayed' = Append(replayed, [ktest |-> Head(ktests), result |-> "success"])
          /\ ktests' = Tail(ktests)
          /\ UNCHANGED adapter_going_on
    /\ UNCHANGED << adapter_frame, status, outdir, outfiles, launched, v_pc >>

\* verify returns the status of run (klee.rs:97).
adapter_return ==
    /\ pc = "loop"
    /\ v_pc = "replay"
    /\ ktests = << >>
    /\ Yield(status, launched)
    /\ v_pc' = "idle"
    /\ UNCHANGED << adapter_frame, status, outdir, outfiles, ktests, replayed, launched >>

\* The loop of verify (main.rs:1077) on one entry main or on two tests.
VerifyInit ==
    LET a == << "/target/host/debug/deps/pkg-a", "bc" >> IN
    /\ opt \in {o \in [backend : {"Klee", "Seahorn"}, args : {FALSE}, replay : 0..MaxReplay,
                       tests : BOOLEAN, clean : {FALSE}, crate_path : {CWD}] :
                  ~main_rejects(o)}
    /\ pc = "loop"
    /\ bcfiles = [found |-> {a}, main |-> {a}]
    /\ c_files = FALSE
    /\ rust_file = a
    /\ bcfile = a
    /\ steps = << [step |-> "compile", input |-> NoPath, output |-> NoPath, ok |-> TRUE] >>
    /\ tests = (IF opt.tests
                THEN << [name |-> "t1", entry |-> "_ZN3pkg2t117h1E"],
                        [name |-> "t2", entry |-> "_ZN3pkg2t217h3E"] >>
                ELSE << [name |-> "main", entry |-> "main"] >>)
    /\ next_test = 1
    /\ passes = 0
    /\ fails = 0
    /\ failure = NoStatus
    /\ invoked = [i \in 1..Len(tests) |-> 0]
    /\ started = [i \in 1..Len(tests) |-> 0]
    /\ yielded = [i \in 1..Len(tests) |-> << >>]
    /\ handed = [i \in 1..Len(tests) |-> << >>]
    /\ exec_failed = {}
    /\ reported = << >>
    /\ aggregate = NoStatus
    /\ exit_code = -1
    /\ logged = NoneStr
    /\ RunIdle
    /\ ResolveIdle
    /\ VerifyIdle
    /\ SantaIdle
    /\ PresentIdle

\* verify_report once no adapter is at work
adapter_report == v_pc = "idle" /\ verify_report

VerifyNext ==
    \/ adapter_enter
    \/ adapter_remove_outdir
    \/ adapter_run
    \/ adapter_list_inputs
    \/ adapter_replay
    \/ adapter_return
    \/ adapter_report
    \/ main_exit

\* The loop of verify with the adapters step by step.
SpecVerify == VerifyInit /\ [][VerifyNext]_vars

-----------------------------------------------------------------------------
\* Advent of Code 2015, day 1 (aoc/2015/day1 and aoc/2015/day1-sf).
\* A string is the sequence of its characters; Multibyte is a character
\* that is neither parenthesis and takes more than one byte.
Multibyte == "e-acute"
Chars == {"(", ")", Multibyte}
Strings(n) == SeqsUpTo(Chars, n)

\* The body of the loop on a count that cannot go below zero.
santa_step_unsigned(count, ch) ==
    IF ch = "(" THEN count + 1
    ELSE IF ch = ")" THEN (IF count > 0 THEN count - 1 ELSE 0)
    ELSE count

\* day1, santa: the body of the loop (day1/src/main.rs:19-25)
santa_step(count, ch) ==
    IF ch = "(" THEN count + 1
    ELSE IF ch = ")" THEN count - 1
    ELSE count

\* day1, santa (day1/src/main.rs:16-28)
RECURSIVE santa_from(_, _)
santa_from(dirs, count) ==
    IF dirs = << >> THEN count ELSE santa_from(Tail(dirs), santa_step(count, Head(dirs)))
santa(dirs) == santa_from(dirs, 0)

\* santa_char counting every other character as a step down.
santa_char_other_down(ch) == IF ch = "(" THEN 1 ELSE -1

\* day1-sf, santa_char (day1-sf/src/main.rs:15-21)
santa_char(ch) ==
    IF ch = "(" THEN 1
    ELSE IF ch = ")" THEN -1
    ELSE 0

\* day1-sf, santa: dirs.chars().map(santa_char).sum() (day1-sf/src/main.rs:23-27)
RECURSIVE sf_santa(_)
sf_santa(dirs) ==
    IF dirs = << >> THEN 0 ELSE santa_char(Head(dirs)) + sf_santa(Tail(dirs))

\* underground_santa returning the byte offset after the character.
RECURSIVE underground_bytes_from(_, _, _)
underground_bytes_from(dirs, bytes, count) ==
    IF dirs = << >> THEN << >>
    ELSE IF santa_step(count, Head(dirs)) < 0 THEN << bytes + (IF Head(dirs) = Multibyte THEN 2 ELSE 1) >>
    ELSE underground_bytes_from(Tail(dirs), bytes + (IF Head(dirs) = Multibyte THEN 2 ELSE 1),
                                santa_step(count, Head(dirs)))
underground_santa_bytes(dirs) == underground_bytes_from(dirs, 0, 0)

\* day1, underground_santa (day1/src/main.rs:116-134): i is the index of
\* enumerate, from 0; None is the empty sequence.  count is an i32 there and
\* an isize in santa: a string of an argument stays far inside both.
RECURSIVE underground_from(_, _, _)
underground_from(dirs, i, count) ==
    IF dirs = << >> THEN << >>
    ELSE IF santa_step(count, Head(dirs)) < 0 THEN << i + 1 >>
    ELSE underground_from(Tail(dirs), i + 1, santa_step(count, Head(dirs)))
underground_santa(dirs) == underground_from(dirs, 0, 0)

\* underground_santa stopping as soon as the sum is not positive.
RECURSIVE sf_underground_at_zero_from(_, _, _)
sf_underground_at_zero_from(dirs, i, sum) ==
    IF dirs = << >> THEN << >>
    ELSE IF sum + santa_char(Head(dirs)) <= 0 THEN << i + 1 >>
    ELSE sf_underground_at_zero_from(Tail(dirs), i + 1, sum + santa_char(Head(dirs)))
sf_underground_santa_at_zero(dirs) == sf_underground_at_zero_from(dirs, 0, 0)

\* x.chars().take(n) (day1/src/main.rs:220)
take(dirs, n) == SubSeq(dirs, 1, n)

\* day1-sf, underground_santa (day1-sf/src/main.rs:90-99)
RECURSIVE sf_underground_from(_, _, _)
sf_underground_from(dirs, i, sum) ==
    IF dirs = << >> THEN << >>
    ELSE IF sum + santa_char(Head(dirs)) < 0 THEN << i + 1 >>
    ELSE sf_underground_from(Tail(dirs), i + 1, sum + santa_char(Head(dirs)))
sf_underground_santa(dirs) == sf_underground_from(dirs, 0, 0)

\* Two strings and a character are given; nothing was called yet.
SantaInit ==
    /\ dirs_x \in Strings(MaxChars)
    /\ dirs_y \in Strings(MaxChars)
    /\ pushed \in Chars
    /\ santa_out = [part1 |-> << >>, part2 |-> << >>]
    /\ MainIdle
    /\ RunIdle
    /\ ResolveIdle
    /\ VerifyIdle
    /\ PresentIdle

\* santa of both crates is called on x, on y and on x followed by y.
santa_call ==
    /\ santa_out.part1 = << >>
    /\ santa_out' =
         [santa_out EXCEPT !.part1 =
            << [x |-> santa(dirs_x), y |-> santa(dirs_y), xy |-> santa(dirs_x \o dirs_y),
                sf_x |-> sf_santa(dirs_x), sf_y |-> sf_santa(dirs_y),
                sf_xy |-> sf_santa(dirs_x \o dirs_y)] >>]
    /\ UNCHANGED << dirs_x, dirs_y, pushed, run_vars, main_vars, resolve_vars, verify_vars,
                    present_vars >>

\* underground_santa of both crates is called on x, on x with the character
\* pushed, on x followed by y, and on the first r characters of x when the
\* value on x is Some(r).
underground_santa_call ==
    /\ santa_out.part2 = << >>
    /\ santa_out' =
         [santa_out EXCEPT !.part2 =
            << [x |-> underground_santa(dirs_x),
                xc |-> underground_santa(Append(dirs_x, pushed)),
                xy |-> underground_santa(dirs_x \o dirs_y),
                santa_x |-> santa(dirs_x),
                taken |-> (IF underground_santa(dirs_x) = << >> THEN << >>
                           ELSE underground_santa(take(dirs_x, underground_santa(dirs_x)[1]))),
                sf_taken |-> (IF sf_underground_santa(dirs_x) = << >> THEN << >>
                              ELSE sf_underground_santa(
                                       take(dirs_x, sf_underground_santa(dirs_x)[1]))),
                sf_x |-> sf_underground_santa(dirs_x),
                sf_xc |-> sf_underground_santa(Append(dirs_x, pushed)),
                sf_xy |-> sf_underground_santa(dirs_x \o dirs_y),
                sf_santa_x |-> sf_santa(dirs_x)] >>]
    /\ UNCHANGED << dirs_x, dirs_y, pushed, run_vars, main_vars, resolve_vars, verify_vars,
                    present_vars >>

SantaNext ==
    \/ santa_call
    \/ underground_santa_call

\* The functions of day1 and day1-sf on every string of the bound.
SpecSanta == SantaInit /\ [][SantaNext]_vars

-----------------------------------------------------------------------------
\* Advent of Code 2015, day 2 (aoc/2015/day2-sf).
\*
\* A number is written in seven limbs of 15 bits, the lowest first, so that
\* values of 64 bits and the exact sums beyond them can be told apart.
LimbBase == 2 ^ 15
Number(n) ==
    << n % LimbBase, (n \div LimbBase) % LimbBase, (n \div LimbBase) \div LimbBase,
       0, 0, 0, 0 >>
RECURSIVE PlusFrom(_, _, _, _)
PlusFrom(a, b, i, carry) ==
    IF i > Len(a) THEN << >>
    ELSE << (a[i] + b[i] + carry) % LimbBase >>
         \o PlusFrom(a, b, i + 1, (a[i] + b[i] + carry) \div LimbBase)
Plus(a, b) == PlusFrom(a, b, 1, 0)
RECURSIVE TimesLimbFrom(_, _, _, _)
TimesLimbFrom(a, d, i, carry) ==
    IF i > Len(a) THEN << >>
    ELSE << (a[i] * d + carry) % LimbBase >>
         \o TimesLimbFrom(a, d, i + 1, (a[i] * d + carry) \div LimbBase)
RECURSIVE ShiftLimbs(_, _)
ShiftLimbs(a, k) ==
    IF k = 0 THEN a ELSE ShiftLimbs(<< 0 >> \o SubSeq(a, 1, Len(a) - 1), k - 1)
RECURSIVE TimesFrom(_, _, _)
TimesFrom(a, b, i) ==
    IF i > Len(a) THEN Number(0)
    ELSE IF a[i] = 0 THEN TimesFrom(a, b, i + 1)
    ELSE Plus(ShiftLimbs(TimesLimbFrom(b, a[i], 1, 0), i - 1), TimesFrom(a, b, i + 1))
Times(a, b) == TimesFrom(a, b, 1)
\* a - b, for b <= a
RECURSIVE MinusFrom(_, _, _, _)
MinusFrom(a, b, i, borrow) ==
    IF i > Len(a) THEN << >>
    ELSE << (a[i] - b[i] - borrow) % LimbBase >>
         \o MinusFrom(a, b, i + 1, IF a[i] - b[i] - borrow < 0 THEN 1 ELSE 0)
Minus(a, b) == MinusFrom(a, b, 1, 0)
Less(a, b) ==
    \E i \in 1..Len(a) : a[i] < b[i] /\ \A j \in (i + 1)..Len(a) : a[j] = b[j]

\* usize of a 64-bit target: 64 bits are four limbs and the low 4 bits of
\* the fifth.
usize_fits(a) == a[5] < 16 /\ a[6] = 0 /\ a[7] = 0
usize_wrap(a) == << a[1], a[2], a[3], a[4], a[5] % 16, 0, 0 >>
\* 2^64 + a - b, for b > a
usize_below_zero(a, b) == usize_wrap(Minus(Plus(ShiftLimbs(Number(16), 4), a), b))

\* A value of type usize under computation: its 64 bits, and whether an
\* operation so far left the range (a panic when the build checks it).
usize(n) == [v |-> Number(n), overflow |-> FALSE]
usize_add(a, b) ==
    [v |-> usize_wrap(Plus(a.v, b.v)),
     overflow |-> a.overflow \/ b.overflow \/ ~usize_fits(Plus(a.v, b.v))]
usize_mul(a, b) ==
    [v |-> usize_wrap(Times(a.v, b.v)),
     overflow |-> a.overflow \/ b.overflow \/ ~usize_fits(Times(a.v, b.v))]
usize_sub(a, b) ==
    [v |-> IF Less(a.v, b.v) THEN usize_below_zero(a.v, b.v) ELSE Minus(a.v, b.v),
     overflow |-> a.overflow \/ b.overflow \/ Less(a.v, b.v)]
\* std::cmp::min and max
min(a, b) == IF Less(b.v, a.v) THEN b ELSE a
max(a, b) == IF Less(a.v, b.v) THEN b ELSE a

\* Present::wrap with the smallest side left out.
Present_wrap_no_slack(self) ==
    usize_mul(usize(2),
              usize_add(usize_add(usize_mul(usize(self.l), usize(self.w)),
                                  usize_mul(usize(self.w), usize(self.h))),
                        usize_mul(usize(self.h), usize(self.l))))

\* Present::wrap (day2-sf/src/main.rs:52-55)
Present_wrap(self) ==
    usize_add(
        usize_mul(usize(2),
                  usize_add(usize_add(usize_mul(usize(self.l), usize(self.w)),
                                      usize_mul(usize(self.w), usize(self.h))),
                            usize_mul(usize(self.h), usize(self.l)))),
        min(usize_mul(usize(self.l), usize(self.w)),
            min(usize_mul(usize(self.w), usize(self.h)),
                usize_mul(usize(self.h), usize(self.l)))))

\* Present::ribbon taking the largest side off the first side alone.
Present_ribbon_max_first(self) ==
    usize_add(
        usize_mul(usize(2),
                  usize_add(usize_add(usize_sub(usize(self.l),
                                                max(usize(self.l),
                                                    max(usize(self.w), usize(self.h)))),
                                      usize(self.w)),
                            usize(self.h))),
        usize_mul(usize_mul(usize(self.l), usize(self.w)), usize(self.h)))

\* Present::ribbon (day2-sf/src/main.rs:57-60)
Present_ribbon(self) ==
    usize_add(
        usize_mul(usize(2),
                  usize_sub(usize_add(usize_add(usize(self.l), usize(self.w)), usize(self.h)),
                            max(usize(self.l), max(usize(self.w), usize(self.h))))),
        usize_mul(usize_mul(usize(self.l), usize(self.w)), usize(self.h)))

\* The sum of an iterator that yields the same value n times: n additions
\* to the running total, which leave the range of usize exactly when n
\* times the value does, and give that product in 64 bits when they wrap.
sum_repeated(acc, value, n) == usize_add(acc, usize_mul(usize(n), value))

\* presents.iter().map(f).sum() on the list that starts with n copies of
\* its head
RECURSIVE sum_map(_, _, _)
sum_map(f(_), list, n) ==
    IF list = << >> THEN usize(0)
    ELSE usize_add(sum_repeated(usize(0), f(Head(list)), n), sum_map(f, Tail(list), 1))

\* wrap (day2-sf/src/main.rs:24-26)
wrap(list, n) == sum_map(Present_wrap, list, n)

\* ribbon (day2-sf/src/main.rs:28-30)
ribbon(list, n) == sum_map(Present_ribbon, list, n)

\* What the caller gets: a panic when the build checks the arithmetic and
\* it left the range, else the 64 bits.
returned(r) ==
    IF overflow_checks /\ r.overflow THEN [panic |-> TRUE, value |-> Number(0)]
    ELSE [panic |-> FALSE, value |-> r.v]

\* const UMAX (day2-sf/src/main.rs:163 and 254): 0..UMAX leaves UMAX out.
UMAX == 100000
Dimensions == {0, 3, UMAX - 1}
\* The presents with three different sides, in every order, and the cubes.
Presents ==
    {p \in [l : Dimensions, w : Dimensions, h : Dimensions] :
        {p.l, p.w, p.h} = Dimensions \/ (p.l = p.w /\ p.w = p.h)}
Copies == {1, 18448, MaxCopies}

\* A list of presents is given, in a build that checks the arithmetic or
\* in one that does not.
PresentInit ==
    /\ presents \in SeqsUpTo(Presents, MaxPresents)
    /\ copies \in (IF presents = << >> THEN {1} ELSE Copies)
    /\ overflow_checks \in BOOLEAN
    /\ totals = [wrap |-> << >>, ribbon |-> << >>]
    /\ MainIdle
    /\ RunIdle
    /\ ResolveIdle
    /\ VerifyIdle
    /\ SantaIdle

\* let wrap = wrap(&presents), and wrap of the list without its head
wrap_call ==
    /\ totals.wrap = << >>
    /\ totals' = [totals EXCEPT !.wrap =
                    << [all |-> returned(wrap(presents, copies)),
                        tail |-> (IF presents = << >> THEN returned(usize(0))
                                  ELSE IF copies > 1
                                       THEN returned(wrap(presents, copies - 1))
                                       ELSE returned(wrap(Tail(presents), 1)))] >>]
    /\ UNCHANGED << presents, copies, overflow_checks, run_vars, main_vars, resolve_vars,
                    verify_vars, santa_vars >>

\* let ribbon = ribbon(&presents), and ribbon of the list without its head
ribbon_call ==
    /\ totals.ribbon = << >>
    /\ totals' = [totals EXCEPT !.ribbon =
                    << [all |-> returned(ribbon(presents, copies)),
                        tail |-> (IF presents = << >> THEN returned(usize(0))
                                  ELSE IF copies > 1
                                       THEN returned(ribbon(presents, copies - 1))
                                       ELSE returned(ribbon(Tail(presents), 1)))] >>]
    /\ UNCHANGED << presents, copies, overflow_checks, run_vars, main_vars, resolve_vars,
                    verify_vars, santa_vars >>

PresentNext ==
    \/ wrap_call
    \/ ribbon_call

\* wrap and ribbon of day2-sf on every list of the bound.
SpecPresent == PresentInit /\ [][PresentNext]_vars

-----------------------------------------------------------------------------
\* Claims about the driver, checked under Spec.

\* The entries that were classified non-Verified.
NonVerified == {i \in 1..Len(tests) : yielded[i] # << "Verified" >>}

\* C1: once verify has run the backend on its N resolved entries, K of them
\* classified non-Verified, the result line reports passes = N - K and
\* fails = K; with K > 0 the returned status is a non-Verified status, with
\* K = 0 it is Verified and fails = 0.
C1_AggregateCounts ==
    reported # << >> =>
        LET N == Len(tests)
            K == Cardinality(NonVerified)
        IN  /\ N >= 1
            /\ \A i \in 1..N : Len(yielded[i]) = 1
            /\ reported[1].passes = N - K
            /\ reported[1].fails = K
            /\ (K > 0 => aggregate \in Status \ {"Verified"})
            /\ (K = 0 => aggregate = "Verified" /\ reported[1].fails = 0)

\* Reached: two entries, one Verified and one not, and the result is reported.
C1_Witness ==
    /\ reported # << >>
    /\ Len(tests) = 2
    /\ Cardinality(NonVerified) = 1
    /\ reported[1] = [passes |-> 1, fails |-> 1]

\* C2: in one run every resolved entry is handed to the selected backend
\* exactly once and yields exactly one Status, for KLEE and for Seahorn: never
\* more than once, and once a run that reached the backend is over, once each.
C2_EveryEntryOnce ==
    /\ \A i \in 1..Len(tests) : invoked[i] <= 1 /\ Len(yielded[i]) <= 1
    /\ (pc = "exited" /\ \E i \in 1..Len(tests) : invoked[i] > 0) =>
         \A i \in 1..Len(tests) : invoked[i] = 1 /\ Len(yielded[i]) = 1

\* C3: the process exits with code 0 only when the aggregate status is
\* Verified; with any other aggregate status, and when the pipeline ended on
\* an internal error without one, the exit code is not 0.
C3_ExitCode ==
    /\ exit_code \in {-1, 0, 1, 101}
    /\ pc = "exited" <=> exit_code # -1
    /\ pc = "exited" => (exit_code = 0 <=> aggregate = "Verified")

\* Reached: every entry of a KLEE run was Verified and the process exits 0.
C3_Witness ==
    /\ pc = "exited"
    /\ exit_code = 0
    /\ reported # << >>
    /\ aggregate = "Verified"

\* C4: an entry whose backend invocation failed to execute is given Status
\* Unknown and every other entry is still run: when the run is over, each
\* such entry has yielded Unknown and every entry has yielded a Status.
C4_FailureDowngraded ==
    (pc = "exited" /\ exec_failed # {}) =>
        /\ \A i \in exec_failed : yielded[i] = << "Unknown" >>
        /\ \A j \in 1..Len(tests) : Len(yielded[j]) = 1

\* The candidate selection of verify is over: compile was the last build step
\* so far and it gave its files, and verify is past the match on the candidates.
SelectionDone ==
    /\ steps # << >>
    /\ steps[Len(steps)].step = "compile"
    /\ steps[Len(steps)].ok
    /\ pc # "select"

\* C15: verify goes on past the candidate selection only with exactly one
\* candidate that defines main; with two or more it fails: none of them is
\* picked, no later build step runs, no entry is resolved or handed to a
\* backend, and the result is Unknown with a non-zero exit.
C15_AmbiguousCandidates ==
    /\ rust_file # NoPath => Cardinality(bcfiles.main) = 1 /\ rust_file \in bcfiles.main
    /\ pc \in {"link", "patch", "resolve", "initializers", "loop"} => rust_file # NoPath
    /\ (Cardinality(bcfiles.main) >= 2 /\ pc # "select") =>
         /\ SelectionDone
         /\ rust_file = NoPath /\ bcfile = NoPath
         /\ tests = << >> /\ handed = << >>
         /\ pc \in {"result", "exited"}
         /\ logged = Some(COMPILATION_ERROR) \/ exit_code = 101
         /\ logged # NoneStr => aggregate = "Unknown"
         /\ pc = "exited" => exit_code # 0

\* Reached: two candidates define main, and the process has exited with 1 on
\* the result Unknown.
C15_Witness ==
    /\ Cardinality(bcfiles.main) = 2
    /\ pc = "exited"
    /\ logged = Some(COMPILATION_ERROR)
    /\ aggregate = "Unknown"
    /\ exit_code = 1

\* C16: with no candidate that defines main verify fails with Unknown, and
\* the error it logs when tests were requested differs from the one it logs
\* when they were not.
C16_NoCandidate ==
    /\ USE_TESTS # COMPILATION_ERROR
    /\ (SelectionDone /\ bcfiles.main = {}) =>
         /\ rust_file = NoPath /\ tests = << >>
         /\ pc \in {"result", "exited"}
         /\ logged # NoneStr \/ exit_code = 101
         /\ logged # NoneStr =>
              /\ aggregate = "Unknown"
              /\ logged = Some(IF opt.tests THEN USE_TESTS ELSE COMPILATION_ERROR)
              /\ pc = "exited" => exit_code = 1

\* Reached: no candidate, tests requested: the run ends on the error that
\* tells to use --tests with library crates.
C16_Witness ==
    /\ SelectionDone
    /\ bcfiles.main = {}
    /\ bcfiles.found # {}
    /\ opt.tests
    /\ logged = Some(USE_TESTS)
    /\ pc = "exited"
    /\ exit_code = 1

\* The steps that transform the artifact.
ArtifactSteps == {"link", "seahorn patch", "initializers patch"}
Transformations == {i \in 1..Len(steps) : steps[i].step \in ArtifactSteps}

\* C17: every link or patch step writes its output to a path other than the
\* path of its input, for every backend, with and without native object files
\* and program arguments.
C17_NewArtifact ==
    \A i \in Transformations : steps[i].output # steps[i].input

\* The place of each transformation in the fixed order.
Rank(step) == IF step = "link" THEN 1 ELSE IF step = "seahorn patch" THEN 2 ELSE 3
\* The artifact the transformations run so far have led to.
CurrentArtifact ==
    IF Transformations = {} THEN File(rust_file, opt.crate_path)
    ELSE steps[Max(Transformations)].output
\* The artifact that was current before step j.
ArtifactBefore(j) ==
    LET earlier == {i \in Transformations : i < j}
    IN  IF earlier = {} THEN File(rust_file, opt.crate_path) ELSE steps[Max(earlier)].output

\* C18: the transformations run in the order link, Seahorn patch, initializers
\* patch, each at most once and each on the file the previous executed one
\* wrote (the selected file for the first); the initializers patch runs if
\* and only if the program receives arguments; every entry is handed to the
\* backend with the artifact of the last executed transformation.
C18_FixedOrder ==
    /\ \A i, j \in Transformations :
         i < j => Rank(steps[i].step) < Rank(steps[j].step) /\ steps[i].ok
    /\ \A j \in Transformations : steps[j].input = ArtifactBefore(j)
    /\ \A j \in Transformations : steps[j].step = "initializers patch" => opt.args
    /\ (pc = "loop" \/ \E e \in 1..Len(handed) : handed[e] # << >>) =>
         /\ opt.args <=> \E j \in Transformations : steps[j].step = "initializers patch"
         /\ \A j \in Transformations : steps[j].ok
         /\ \A e \in 1..Len(handed) : \A k \in 1..Len(handed[e]) :
              handed[e][k] = CurrentArtifact

\* The build steps compile, link and patch that failed.
FailedBuildSteps ==
    {i \in 1..Len(steps) : steps[i].step \in {"compile"} \cup ArtifactSteps /\ ~steps[i].ok}

\* C19: a failed compile, link or patch step is the last step of the run: no
\* step is run twice, no step follows the failed one, no entry is handed to a
\* backend and no result line is printed; the run is over with Unknown or a
\* panic, and the process exits with a non-zero code.
C19_BuildFailureIsFatal ==
    /\ \A i, j \in 1..Len(steps) : i # j => steps[i].step # steps[j].step
    /\ \A i \in FailedBuildSteps :
         /\ i = Len(steps)
         /\ pc \in {"result", "exited"}
         /\ aggregate \in {NoStatus, "Unknown"}
         /\ aggregate = NoStatus => exit_code = 101
         /\ \A e \in 1..Len(tests) : invoked[e] = 0 /\ handed[e] = << >>
         /\ reported = << >>
         /\ pc = "exited" => exit_code # 0

\* Reached: the entries were resolved, then the initializers patch failed, and
\* the process has exited with 1 without handing an entry to the backend.
C19_Witness ==
    /\ FailedBuildSteps # {}
    /\ steps[Len(steps)].step = "initializers patch"
    /\ Len(tests) = 2
    /\ \A e \in 1..Len(tests) : invoked[e] = 0
    /\ aggregate = "Unknown"
    /\ pc = "exited"
    /\ exit_code = 1

\* C20: an incompatible combination of flags (Seahorn with program arguments,
\* Seahorn with --replay, Proptest with --replay and program arguments) stops
\* the process with exit code 1 as its first step: cargo clean, compile and
\* every other build step are never run for it.
C20_ConfigurationError ==
    (\/ opt.backend = "Seahorn" /\ opt.args
     \/ opt.backend = "Seahorn" /\ opt.replay > 0
     \/ opt.backend = "Proptest" /\ opt.replay > 0 /\ opt.args) =>
        /\ steps = << >>
        /\ pc \in {"main", "exited"}
        /\ pc = "exited" => exit_code = 1
        /\ bcfiles.found = {} /\ tests = << >> /\ aggregate = NoStatus

\* Reached: Seahorn with --replay and --clean has exited with 1, nothing run.
C20_Witness ==
    /\ opt.backend = "Seahorn"
    /\ opt.replay > 0
    /\ ~opt.args
    /\ opt.clean
    /\ pc = "exited"
    /\ exit_code = 1
    /\ steps = << >>

\* The run of cargo test, once the Proptest runner has returned a status.
ProptestReturned == opt.backend = "Proptest" /\ aggregate # NoStatus
CargoTest == steps[Len(steps)]
SaysWithOverflow == \E i \in 1..Len(stderr) : contains(stderr[i], << "with ", "overflow" >>)

\* C36: the status the Proptest runner returns is Verified exactly when cargo
\* test exited successfully; after an unsuccessful exit it is Overflow when a
\* line of the standard error contains "with overflow" and Error when none
\* does; it is never Unknown, Timeout or Reachable.
C36_ProptestStatus ==
    ProptestReturned =>
        /\ CargoTest.step = "cargo test"
        /\ aggregate = "Verified" <=> CargoTest.ok
        /\ ~CargoTest.ok => (aggregate = "Overflow" <=> SaysWithOverflow)
        /\ ~CargoTest.ok => (aggregate = "Error" <=> ~SaysWithOverflow)
        /\ aggregate \notin {"Unknown", "Timeout", "Reachable"}

\* Reached: cargo test failed on an arithmetic overflow and the runner has
\* returned Overflow.
C36_Witness ==
    /\ ProptestReturned
    /\ ~CargoTest.ok
    /\ SaysWithOverflow
    /\ aggregate = "Overflow"

\* Reached: cargo test failed, its one line speaks of an overflow without the
\* words "with overflow", and the runner has returned Error.
C36_WitnessError ==
    /\ ProptestReturned
    /\ ~CargoTest.ok
    /\ \E i \in 1..Len(stderr) : contains(stderr[i], << "overflow" >>)
    /\ aggregate = "Error"

\* C40: the Proptest runner is only entered with options that satisfy its
\* assertion: when --replay is given there are no program arguments, so the
\* process never ends on the assertion (a panic, code 101, before cargo test).
C40_AssertionNeverFails ==
    /\ pc = "proptest" => (opt.replay > 0 => ~opt.args)
    /\ (opt.backend = "Proptest" /\ opt.replay > 0 /\ opt.args) => exit_code # 101

\* Reached: the runner was entered with --replay and has run cargo test.
C40_Witness ==
    /\ opt.backend = "Proptest"
    /\ opt.replay > 0
    /\ ~opt.args
    /\ steps # << >>
    /\ CargoTest.step = "cargo test"
    /\ aggregate = "Verified"

\* Reached: main has rejected Proptest with --replay and program arguments.
C40_WitnessRejected ==
    /\ opt.backend = "Proptest"
    /\ opt.replay > 0
    /\ opt.args
    /\ pc = "exited"
    /\ exit_code = 1

\* The steps of verify that link or patch the bitcode.
LinkAndPatchSteps ==
    {i \in 1..Len(steps) : steps[i].step \in {"link", "seahorn patch", "initializers patch"}}
CompileSteps == {i \in 1..Len(steps) : steps[i].step = "compile"}

\* C38: verify returns Verified only at its end, after a compile step that
\* succeeded, with exactly one candidate defining main, every link and patch
\* step that was run having succeeded, at least one entry resolved, and every
\* entry run once on the backend and classified Verified; a return before
\* the loop is never Verified.
C38_VerifiedOnlyAtTheEnd ==
    /\ (opt.backend # "Proptest" /\ aggregate = "Verified") =>
          /\ CompileSteps # {}
          /\ \A i \in CompileSteps : steps[i].ok
          /\ Cardinality(bcfiles.main) = 1
          /\ rust_file \in bcfiles.main
          /\ \A i \in LinkAndPatchSteps : steps[i].ok
          /\ Len(tests) >= 1
          /\ \A e \in 1..Len(tests) : invoked[e] = 1 /\ yielded[e] = << "Verified" >>
          /\ reported = << [passes |-> Len(tests), fails |-> 0] >>
    /\ (opt.backend # "Proptest" /\ aggregate # NoStatus /\ reported = << >>) =>
          aggregate = "Unknown"

\* Reached: linked, patched for its arguments, two entries run by KLEE and
\* both Verified: verify has returned Verified.
C38_Witness ==
    /\ opt.backend = "Klee"
    /\ aggregate = "Verified"
    /\ Cardinality(LinkAndPatchSteps) = 2
    /\ Len(tests) = 2
    /\ reported # << >>

\* Reached: verify has returned before the loop, after a link that failed.
C38_WitnessEarly ==
    /\ opt.backend = "Klee"
    /\ aggregate = "Unknown"
    /\ reported = << >>
    /\ LinkAndPatchSteps # {}
    /\ ~steps[Len(steps)].ok

\* The status of the last entry, in the order of resolution, that was not
\* classified Verified.
RECURSIVE LastFailure(_)
LastFailure(ys) ==
    IF ys = << >> THEN NoStatus
    ELSE IF ys[Len(ys)] # << "Verified" >> THEN ys[Len(ys)][1]
    ELSE LastFailure(SubSeq(ys, 1, Len(ys) - 1))

-----------------------------------------------------------------------------
\* Claims about the adapters, checked under SpecVerify.

\* C24: the backend subprocess is only started while the scratch output
\* directory of the entry does not exist; when the directory is still there
\* after the removal attempt, the call ends at once without starting the
\* subprocess, the entry gets the status Unknown and is counted as a failure.
C24_Step ==
    /\ (~launched /\ launched') => (v_pc = "run" /\ outdir = "absent")
    /\ (v_pc = "remove" /\ outdir' = "present") =>
          /\ v_pc' = "idle"
          /\ ~launched'
          /\ started' = started
          /\ yielded' = [yielded EXCEPT ![next_test] = Append(@, "Unknown")]
          /\ fails' = fails + 1
          /\ failure' = "Unknown"
          /\ pc' = "loop"
C24_LeftoverDirectoryIsAFailure == [][C24_Step]_vars

\* A call has ended on a directory that could not be removed.
C24_Witness ==
    /\ v_pc = "idle" /\ outdir = "present" /\ ~launched
    /\ next_test > 1
    /\ started[next_test - 1] = 0
    /\ yielded[next_test - 1] = << "Unknown" >>
    /\ fails >= 1

\* The replay attempts that ended unsuccessfully.
FailedReplays == {i \in 1..Len(replayed) : replayed[i].result = "unsuccessful"}

\* C25: a replay attempt that ends unsuccessfully does not end the run: the
\* process goes on (to the remaining inputs, the return of the status and the
\* remaining entries).
C25_ReplayFailureIsNotFatal ==
    FailedReplays # {} => pc # "exited" /\ exit_code = -1

\* The inputs the replay level asks for: none at level 0, the input of every
\* failing test at level 1, every recorded input from level 2 on.
IsTestFile(f, ext) == Len(f) >= 2 /\ HasTest(f[1]) /\ f[Len(f)] = ext
KtestOf(f) == << f[1], "ktest" >>
ExpectedInputs ==
    IF opt.replay = 0 THEN {}
    ELSE IF opt.replay = 1 THEN {KtestOf(f) : f \in {g \in outfiles : IsTestFile(g, "err")}}
    ELSE {f \in outfiles : IsTestFile(f, "ktest")}
ReplayedTimes(f) == Cardinality({i \in 1..Len(replayed) : replayed[i].ktest = f})
\* The call of the adapter is over, by a return or with the process, once the
\* output was classified and the directory read.
ReplayOver ==
    \/ v_pc = "replay" /\ (ktests = << >> \/ pc = "exited")
    \/ v_pc = "idle" /\ launched /\ opt.backend = "Klee"

\* C26: no input is replayed before the classification, none that the level
\* does not ask for and none twice; once the call is over, every input the
\* level asks for was replayed once (given that cargo could be executed for
\* every replay), and what is returned is the status of the classification.
C26_ReplayByLevel ==
    /\ replayed # << >> => status # NoStatus
    /\ \A i \in 1..Len(replayed) : replayed[i].ktest \in ExpectedInputs
    /\ \A f \in ExpectedInputs : ReplayedTimes(f) <= 1
    /\ (ReplayOver /\ \A i \in 1..Len(replayed) : replayed[i].result # "not executed") =>
          \A f \in ExpectedInputs : ReplayedTimes(f) = 1
    /\ (v_pc = "idle" /\ launched /\ opt.backend = "Klee") =>
          yielded[next_test - 1] = << status >>

\* The same when no replay has failed.
ReplayByLevelWhenReplaysSucceed ==
    (\A i \in 1..Len(replayed) : replayed[i].result = "success") => C26_ReplayByLevel

-----------------------------------------------------------------------------
\* Claims about the resolution of the entries, checked under SpecResolve.

\* The resolution step is over.
ResolutionDone == pc # "resolve"
\* The listed names that contain one of the substrings of --test, all of them
\* without --test.
Kept == {t \in listing.listed :
           listing.test = {} \/ \E f \in listing.test : contains(TestChars[t], f)}
EntryNames == {tests[i].name : i \in 1..Len(tests)}
\* The symbols of the table that demangle to a name.
SymbolsOf(name) == {i \in 1..Len(symtab) : symtab[i].dname = name}

\* C21: when tests are verified, only listed names that contain one of the
\* --test substrings (any listed name without --test) become entries; when
\* no name is left, no entry is resolved, no backend is invoked, the error
\* No tests found is reported and the run ends with a status that is not
\* Verified and an exit code that is not 0 (unless cargo could not be run at
\* all, which panics).
C21_NoTestLeftIsAnError ==
    (opt.tests /\ ResolutionDone) =>
        /\ EntryNames \subseteq Kept
        /\ Kept = {} =>
             /\ tests = << >> /\ invoked = << >> /\ started = << >>
             /\ reported = << >>
             /\ \/ pc = "exited" /\ exit_code = 101 /\ logged = NoneStr
                \/ /\ logged = Some("No tests found")
                   /\ aggregate = "Unknown"
                   /\ pc = "result" \/ (pc = "exited" /\ exit_code = 1)

\* Tests were listed, --test kept none of them, and the run has ended with 1.
C21_Witness ==
    /\ opt.tests /\ listing.listed # {} /\ listing.test # {} /\ Kept = {}
    /\ pc = "exited" /\ exit_code = 1 /\ logged = Some("No tests found")

\* C22: when the lookup of the requested test names has not ended the run
\* (entries were resolved), every requested name has a symbol in the table
\* that demangles to it.
C22_MissingNameIsFatal ==
    (opt.tests /\ ResolutionDone /\ tests # << >>) =>
        \A t \in Kept : SymbolsOf(t) # {}

\* C23: with Seahorn and a single entry, the entry is resolved only when
\* exactly one symbol of the table demangles to the main of the package, and
\* it is that symbol; with none or several the run ends with an exit code
\* that is not 0 (or verify returns Unknown, which main turns into 1) and no
\* backend is invoked.
C23_ExactlyOneMain ==
    (opt.backend = "Seahorn" /\ ~opt.tests /\ ResolutionDone) =>
        /\ tests # << >> =>
             /\ Cardinality(SymbolsOf(PackageMain)) = 1
             /\ Len(tests) = 1
             /\ tests[1] = [name |-> "main",
                            entry |-> symtab[CHOOSE i \in SymbolsOf(PackageMain) : TRUE].sym]
        /\ Cardinality(SymbolsOf(PackageMain)) # 1 =>
             /\ tests = << >> /\ invoked = << >> /\ started = << >>
             /\ \/ pc = "exited" /\ exit_code \in {1, 101}
                \/ pc = "result" /\ aggregate = "Unknown"

\* Two symbols demangle to the main of the package and the run has ended in
\* failure at the lookup.
C23_Witness ==
    /\ opt.backend = "Seahorn" /\ ~opt.tests
    /\ Cardinality(SymbolsOf(PackageMain)) = 2
    /\ pc = "exited" /\ exit_code \in {1, 101} /\ tests = << >>

\* One symbol demangles to the main of the package and it is the entry the
\* backend was called on.
C23_WitnessResolved ==
    /\ opt.backend = "Seahorn" /\ ~opt.tests
    /\ Cardinality(SymbolsOf(PackageMain)) = 1
    /\ Len(tests) = 1 /\ invoked = << 1 >>

-----
\* Claims about the classifiers, checked under SpecRun.

\* The status scan is over: status is the classification of the output.
Classified == run_pc \in {"stats", "returned", "panicked"}

\* The text the status scan reads, and the text the expectation scan reads
\* (stderr).
ScannedText == IF run_backend = "Seahorn" THEN stderr \o stdout ELSE stderr

\* The marker lines of the in-band protocol and the expectation each declares.
IsGenericMarker(l) == l = << "VERIFIER_EXPECT:", " should_panic" >>
IsMessageMarker(l) ==
    /\ Len(l) >= 4
    /\ SubSeq(l, 1, 3) = << "VERIFIER_EXPECT:", " should_panic", "(expected = \"" >>
    /\ l[Len(l)] = "\")"
IsMarker(l) == IsGenericMarker(l) \/ IsMessageMarker(l)
MarkerExpectation(l) == IF IsGenericMarker(l) THEN << >> ELSE SubSeq(l, 4, Len(l) - 1)
Markers(text) == {i \in 1..Len(text) : IsMarker(text[i])}
\* The expectation registered by a text: that of its last marker line.
Registered(text) ==
    IF Markers(text) = {} THEN NoneStr
    ELSE Some(MarkerExpectation(text[Max(Markers(text))]))

\* A panic line of the program under test, and its message.
IsPanicLine(l) == PANOCKED_captures(l) # NoneStr
PanicMessage(l) == PANOCKED_captures(l)[1]
\* The line satisfies expectation e.
Satisfies(l, e) == e # NoneStr /\ IsPanicLine(l) /\ contains(PanicMessage(l), e[1])

\* The patterns of the tables.
IsTimeoutMarker(l) == starts_with(l, KLEE_HALT_TIMER) \/ starts_with(l, KLEE_HALTING)
IsKleeError(l) == starts_with(l, KLEE_ERROR)
IsGenericFailure(l) ==
    \/ contains(l, ASSERTION_FAILED)
    \/ contains(l, VERIFICATION_FAILED)
    \/ contains(l, WITH_OVERFLOW)
IsDoneMarker(b, l) == IF b = "Seahorn" THEN l = UNSAT ELSE contains(l, KLEE_DONE_LIT)
\* Line l matches a pattern of backend b's table, under expectation e.
Decisive(b, l, e) ==
    IF b = "Seahorn"
    THEN ~starts_with(l, VERIFIER_EXPECT) /\ (Satisfies(l, e) \/ l = SAT \/ l = UNSAT)
    ELSE \/ IsTimeoutMarker(l)
         \/ IsKleeError(l)
         \/ /\ ~starts_with(l, VERIFIER_EXPECT)
            /\ \/ Satisfies(l, e)
               \/ IsGenericFailure(l)
               \/ contains(l, RUST_BACKTRACE)
               \/ contains(l, KLEE_DONE_LIT)
DecisiveLines ==
    {i \in 1..Len(ScannedText) : Decisive(run_backend, ScannedText[i], Registered(stderr))}
FirstDecisive == ScannedText[Min(DecisiveLines)]

\* C5: with the generic marker VERIFIER_EXPECT: should_panic as the last marker
\* of stderr, every panic line satisfies the expectation, and a run whose
\* first decisive line is a panic line of the program is classified Verified,
\* also when that line matches a generic failure pattern.
C5_GenericShouldPanic ==
    (Markers(stderr) # {} /\ IsGenericMarker(stderr[Max(Markers(stderr))])) =>
        /\ \A i \in 1..Len(ScannedText) :
             IsPanicLine(ScannedText[i]) => Satisfies(ScannedText[i], Registered(stderr))
        /\ (/\ Classified
            /\ DecisiveLines # {}
            /\ IsPanicLine(FirstDecisive)
            /\ ~IsTimeoutMarker(FirstDecisive)
            /\ ~IsKleeError(FirstDecisive)) => status = "Verified"

\* Reached: KLEE, the generic marker, and a first decisive line that is a
\* panic and matches a generic failure pattern; the run is Verified.
C5_Witness ==
    /\ Classified
    /\ run_backend = "Klee"
    /\ Markers(stderr) # {} /\ IsGenericMarker(stderr[Max(Markers(stderr))])
    /\ DecisiveLines # {}
    /\ IsPanicLine(FirstDecisive)
    /\ IsGenericFailure(FirstDecisive)
    /\ status = "Verified"

\* The registered expectation requires a message X.
MessageExpected == Registered(stderr) # NoneStr /\ Registered(stderr)[1] # << >>
\* A panic occurs with a message that does not contain X.
OtherPanic(l) == IsPanicLine(l) /\ ~Satisfies(l, Registered(stderr))

\* C6 as stated: under should_panic(expected = X), a run in which a panic
\* occurs with a message that does not contain X (and none with a message that
\* contains X) is classified Error.
C6_OtherMessageIsError ==
    (/\ Classified
     /\ MessageExpected
     /\ \E i \in 1..Len(ScannedText) : OtherPanic(ScannedText[i])
     /\ \A i \in 1..Len(ScannedText) : ~Satisfies(ScannedText[i], Registered(stderr)))
        => status = "Error"

\* C6 amended: under should_panic(expected = X) only a panic line whose message
\* contains X satisfies the expectation: the run is Verified only when its
\* first decisive line is such a line.  A run in which no panic line's message
\* contains X is never Verified: it is Unknown when no line is decisive, Error
\* or Overflow when a panic line with another message is the first decisive
\* line, and Error when the done marker is.
C6_OnlyMatchingMessageVerifies ==
    (Classified /\ MessageExpected) =>
        /\ status = "Verified" =>
             DecisiveLines # {} /\ Satisfies(FirstDecisive, Registered(stderr))
        /\ (\A i \in 1..Len(ScannedText) : ~Satisfies(ScannedText[i], Registered(stderr))) =>
             /\ status # "Verified"
             /\ DecisiveLines = {} => status = "Unknown"
             /\ (DecisiveLines # {} /\ OtherPanic(FirstDecisive) /\ ~IsKleeError(FirstDecisive))
                   => status \in {"Error", "Overflow"}
             /\ (/\ DecisiveLines # {}
                 /\ IsDoneMarker(run_backend, FirstDecisive)
                 /\ ~IsKleeError(FirstDecisive)
                 /\ ~IsGenericFailure(FirstDecisive)) => status = "Error"

\* Reached: a message is expected, a panic with another message is the first
\* decisive line, no panic has the expected message, and the run is not Verified.
C6_Witness ==
    /\ Classified
    /\ MessageExpected
    /\ DecisiveLines # {}
    /\ OtherPanic(FirstDecisive)
    /\ \A i \in 1..Len(ScannedText) : ~Satisfies(ScannedText[i], Registered(stderr))
    /\ status = "Error"

\* A line that matches no pattern and is no marker.
Inert(b, l) == ~IsMarker(l) /\ ~Decisive(b, l, NoneStr) /\ ~Decisive(b, l, Some(<< >>))
\* The line is a done marker and nothing else.
OnlyDone(b, l) ==
    /\ IsDoneMarker(b, l)
    /\ ~IsKleeError(l) /\ ~IsTimeoutMarker(l) /\ ~IsGenericFailure(l)
    /\ ~contains(l, RUST_BACKTRACE) /\ ~IsPanicLine(l) /\ ~starts_with(l, VERIFIER_EXPECT)

\* C7: an output with a done marker (KLEE: a line containing KLEE: done:,
\* Seahorn: a line unsat), no expectation marker and otherwise only lines that
\* match nothing, is classified Verified.
C7_DoneIsVerified ==
    (/\ Classified
     /\ \E i \in 1..Len(ScannedText) : OnlyDone(run_backend, ScannedText[i])
     /\ \A i \in 1..Len(ScannedText) :
          OnlyDone(run_backend, ScannedText[i]) \/ Inert(run_backend, ScannedText[i])
     /\ Markers(stderr) = {} /\ Markers(stdout) = {}) => status = "Verified"

\* Reached: KLEE's stderr is one done marker, and the run is Verified.
C7_Witness ==
    /\ Classified
    /\ run_backend = "Klee"
    /\ Len(stderr) = 1
    /\ OnlyDone("Klee", stderr[1])
    /\ status = "Verified"

\* C8: an output with an expectation marker and a done marker but no panic
\* line that satisfies the expectation (and otherwise only lines that match
\* nothing) is classified Error, wherever the marker stands.
C8_DoneWithExpectationIsError ==
    (/\ Classified
     /\ Markers(stderr) # {}
     /\ \E i \in 1..Len(ScannedText) : OnlyDone(run_backend, ScannedText[i])
     /\ \A i \in 1..Len(ScannedText) :
          \/ OnlyDone(run_backend, ScannedText[i])
          \/ IsMarker(ScannedText[i])
          \/ /\ ~Decisive(run_backend, ScannedText[i], Registered(stderr))
             /\ ~IsDoneMarker(run_backend, ScannedText[i]))
        => status = "Error"

\* Reached: the done marker comes first and the expectation marker after it.
C8_Witness ==
    /\ Classified
    /\ Len(stderr) >= 2
    /\ OnlyDone(run_backend, ScannedText[1])
    /\ Markers(stderr) # {}
    /\ Min(Markers(stderr)) > 1
    /\ \A i \in 1..Len(ScannedText) : ~Satisfies(ScannedText[i], Registered(stderr))
    /\ status = "Error"

\* C9: the expectation scan is a full pass over stderr: after each line the
\* expectation is the one of the last marker read so far, and the expectation
\* the status scan uses is the one of the last marker line of stderr, generic
\* or with a message; earlier markers have no effect.
C9_LastMarkerWins ==
    /\ run_pc = "expect" => expect = Registered(SubSeq(stderr, 1, pos - 1))
    /\ run_pc \in {"status", "stats", "returned", "panicked"} => expect = Registered(stderr)

\* Reached: two markers that declare different expectations; the last one is used.
C9_Witness ==
    /\ run_pc = "status"
    /\ Cardinality(Markers(stderr)) >= 2
    /\ MarkerExpectation(stderr[Min(Markers(stderr))])
         # MarkerExpectation(stderr[Max(Markers(stderr))])
    /\ expect = Some(MarkerExpectation(stderr[Max(Markers(stderr))]))

\* C10: the status is decided at the first line that matches a pattern of the
\* table, the scan stops there, and once decided the status never changes; it
\* is Unknown only after every line was read without a match.  A KLEE run
\* whose first decisive line is a timeout marker is classified Timeout.
C10_Step ==
    /\ status # NoStatus => status' = status /\ pos' = pos
    /\ (status = NoStatus /\ status' # NoStatus) =>
         IF DecisiveLines = {}
         THEN status' = "Unknown" /\ pos > Len(ScannedText)
         ELSE /\ pos = Min(DecisiveLines)
              /\ (run_backend = "Klee" /\ IsTimeoutMarker(FirstDecisive)) => status' = "Timeout"
    /\ (run_pc = "status" /\ status' = NoStatus /\ DecisiveLines # {}) =>
         pos' <= Min(DecisiveLines)
C10_FirstDecisiveLineDecides == [][C10_Step]_vars

\* Reached: KLEE, a timeout marker first and other decisive lines after it.
C10_Witness ==
    /\ Classified
    /\ run_backend = "Klee"
    /\ Cardinality(DecisiveLines) >= 2
    /\ IsTimeoutMarker(FirstDecisive)
    /\ ~IsTimeoutMarker(ScannedText[Max(DecisiveLines)])
    /\ status = "Timeout"


\* The lines that satisfy the registered expectation and are not lines of
\* KLEE's own (timeout or KLEE: ERROR: lines, which the table decides first).
ExpectedPanicLines ==
    {i \in 1..Len(ScannedText) :
        /\ Satisfies(ScannedText[i], Registered(stderr))
        /\ ~IsTimeoutMarker(ScannedText[i])
        /\ ~IsKleeError(ScannedText[i])}

\* C11: a line that is an expected panic, with no decisive line before it,
\* classifies the run as Verified, whatever generic failure pattern matches on
\* that line or on a later line.
C11_ExpectedPanicFirst ==
    (/\ Classified
     /\ \E i \in ExpectedPanicLines : \A j \in DecisiveLines : j >= i) => status = "Verified"

\* Reached: the expected panic line also matches a generic failure pattern, a
\* later line matches one too, and the run is Verified.
C11_Witness ==
    /\ Classified
    /\ run_backend = "Klee"
    /\ MessageExpected
    /\ \E i \in ExpectedPanicLines :
         /\ \A j \in DecisiveLines : j >= i
         /\ IsGenericFailure(ScannedText[i])
         /\ \E k \in (i + 1)..Len(ScannedText) : IsGenericFailure(ScannedText[k])
    /\ status = "Verified"


\* C13: when no line of the output matches a pattern of the backend's table,
\* the status is Unknown, for both backends and every registered expectation,
\* and run returns it.
C13_NoMatchIsUnknown ==
    (Classified /\ DecisiveLines = {}) => status = "Unknown" /\ run_pc # "panicked"

\* Reached: an expectation is registered, a panic line with another message
\* and no decisive line are in the output, and run has returned Unknown.
C13_Witness ==
    /\ run_pc = "returned"
    /\ DecisiveLines = {}
    /\ MessageExpected
    /\ \E i \in 1..Len(ScannedText) : OtherPanic(ScannedText[i])
    /\ status = "Unknown"

\* The trailer line KLEE: done: completed paths = 42.
TrailerCompletedPaths42 == << "KLEE:", " done:", " ", "completed paths", " ", "= ", "42" >>

\* C14: the statistics extraction never fails: run never panics in it, and
\* when stderr holds the trailer KLEE: done: completed paths = 42 the map run
\* returns holds the entry completed paths -> 42.
C14_StatsBestEffort ==
    /\ run_pc # "panicked"
    /\ (/\ run_pc = "returned"
        /\ run_backend = "Klee"
        /\ \E i \in 1..Len(stderr) : stderr[i] = TrailerCompletedPaths42) =>
          /\ COMPLETED_PATHS \in DOMAIN stats
          /\ stats[COMPLETED_PATHS] = 42

-----------------------------------------------------------------------------
\* Claims about the echo, checked under SpecEcho.

\* run is over: it has returned or it has panicked.
RunOver == run_pc \in {"returned", "panicked"}
\* The expectation the markers of the output register.
EchoExpectation == scan_expect(stderr, NoneStr)
RankOf(l) == importance(run_backend, l, EchoExpectation)
\* The lines with a rank strictly below the verbosity, in their order.
BelowVerbosity == SelectSeq(stderr, LAMBDA l : RankOf(l) < verbosity)

\* C27: every line of the output has a rank from -1 to 5; once run is over,
\* the lines echoed are exactly those whose rank is strictly below the
\* verbosity; and the status is the one the classification gives whatever
\* the verbosity is.
C27_EchoByRank ==
    /\ \A i \in 1..Len(stderr) : RankOf(stderr[i]) \in -1..5
    /\ RunOver => echoed = BelowVerbosity
    /\ RunOver => status = scan_status(run_backend, stderr, stdout)

\* The same for the runs that return.
EchoByRankWhenReturned ==
    /\ \A i \in 1..Len(stderr) : RankOf(stderr[i]) \in -1..5
    /\ run_pc = "returned" => echoed = BelowVerbosity
    /\ RunOver => status = scan_status(run_backend, stderr, stdout)

-----------------------------------------------------------------------------
\* Claims about the echo at any number of -v flags, checked under SpecFlags.

\* The lines of stderr of rank -1, in their order.
ScriptErrors == SelectSeq(stderr, LAMBDA l : klee_importance(l, scan_expect(stderr, NoneStr)) = -1)
EchoedScriptErrors ==
    SelectSeq(echoed, LAMBDA l : klee_importance(l, scan_expect(stderr, NoneStr)) = -1)

\* C37: when KLEE's run returns, every line of its output of rank -1 has
\* been echoed, whatever the number of -v flags is.
C37_ScriptErrorAlwaysEchoed ==
    (run_backend = "Klee" /\ run_pc = "returned") => EchoedScriptErrors = ScriptErrors

\* The same for the numbers of -v flags whose low eight bits are below 128.
ScriptErrorEchoedWhenItFits ==
    (run_backend = "Klee" /\ run_pc = "returned" /\ verbosity % 256 < 128) =>
        EchoedScriptErrors = ScriptErrors

\* The same failing exactly when the low eight bits are 128 or more.
ScriptErrorLostWhenNegative ==
    (run_backend = "Klee" /\ run_pc = "returned" /\ verbosity % 256 >= 128) =>
        echoed = << >>

-----------------------------------------------------------------------------
\* Claims about day1, checked under SpecSanta.

Ups(str) == Cardinality({i \in 1..Len(str) : str[i] = "("})
Downs(str) == Cardinality({i \in 1..Len(str) : str[i] = ")"})
Part1 == santa_out.part1[1]
Part2 == santa_out.part2[1]

\* C28: santa of a string is the number of its opening parentheses minus the
\* number of its closing parentheses, every other character counting 0, in
\* day1 and in day1-sf.
C28_SantaCountsParentheses ==
    santa_out.part1 # << >> =>
        /\ Part1.x = Ups(dirs_x) - Downs(dirs_x)
        /\ Part1.sf_x = Ups(dirs_x) - Downs(dirs_x)
        /\ Part1.xy = Ups(dirs_x \o dirs_y) - Downs(dirs_x \o dirs_y)
        /\ Part1.sf_xy = Ups(dirs_x \o dirs_y) - Downs(dirs_x \o dirs_y)
        /\ dirs_x = << >> => (Part1.x = 0 /\ Part1.sf_x = 0)

\* santa was called on a string with both parentheses and another character.
C28_Witness ==
    /\ santa_out.part1 # << >>
    /\ dirs_x = << "(", Multibyte, "(" >> /\ dirs_y = << ")" >>
    /\ Part1.x = 2 /\ Part1.sf_x = 2 /\ Part1.xy = 1

\* C29: santa of x plus santa of y is santa of x followed by y, in day1 and
\* in day1-sf.
C29_SantaIsAdditive ==
    santa_out.part1 # << >> =>
        /\ Part1.x + Part1.y = Part1.xy
        /\ Part1.sf_x + Part1.sf_y = Part1.sf_xy

\* santa was called on a string that goes up and one that goes below zero.
C29_Witness ==
    /\ santa_out.part1 # << >>
    /\ dirs_x = << "(" >> /\ dirs_y = << ")", ")" >>
    /\ Part1.x = 1 /\ Part1.y = -2 /\ Part1.xy = -1

\* What pushing a character onto a string does to underground_santa, given
\* the value before and santa of the string.
AfterPush(before, floor) ==
    IF before # << >> THEN before
    ELSE IF floor = 0 /\ pushed = ")" THEN << Len(dirs_x) + 1 >>
    ELSE << >>

\* C30: underground_santa of x with a character pushed is underground_santa
\* of x when that is Some, else Some(number of characters of x + 1) when
\* santa of x is 0 and the character is the closing parenthesis, else None;
\* and when it is Some for x it is the same for x followed by any y.  In
\* day1 and in day1-sf.
C30_UndergroundPush ==
    santa_out.part2 # << >> =>
        /\ Part2.xc = AfterPush(Part2.x, Part2.santa_x)
        /\ Part2.sf_xc = AfterPush(Part2.sf_x, Part2.sf_santa_x)
        /\ Part2.x # << >> => Part2.xy = Part2.x
        /\ Part2.sf_x # << >> => Part2.sf_xy = Part2.sf_x

\* The closing parenthesis was pushed at floor 0 after a character of more
\* than one byte.
C30_Witness ==
    /\ santa_out.part2 # << >>
    /\ dirs_x = << "(", Multibyte, ")" >> /\ pushed = ")"
    /\ Part2.x = << >> /\ Part2.xc = << 4 >> /\ Part2.sf_xc = << 4 >>

\* The floor after the first k characters of a string.
Floor(str, k) == Ups(SubSeq(str, 1, k)) - Downs(SubSeq(str, 1, k))

\* What a value of underground_santa on x has to be: None when the floor
\* never goes below 0, else Some(r) with r the first position after which
\* it is below 0.
FirstBasement(res, again) ==
    IF \A k \in 1..Len(dirs_x) : Floor(dirs_x, k) >= 0
    THEN res = << >>
    ELSE /\ Len(res) = 1
         /\ res[1] \in 1..Len(dirs_x)
         /\ Floor(dirs_x, res[1]) < 0
         /\ \A k \in 1..(res[1] - 1) : Floor(dirs_x, k) >= 0
         /\ dirs_x[res[1]] = ")"
         /\ again = res

\* C31: when underground_santa of x is Some(r), r is the 1-based position of
\* the first character at which the floor drops below 0: r is between 1 and
\* the number of characters of x, the r-th character is the closing
\* parenthesis, and underground_santa of the first r characters of x is
\* Some(r) too; when the floor never drops below 0 the value is None.  In
\* day1 and in day1-sf.
C31_FirstBasementPosition ==
    santa_out.part2 # << >> =>
        /\ FirstBasement(Part2.x, Part2.taken)
        /\ FirstBasement(Part2.sf_x, Part2.sf_taken)

\* The basement is reached at the second of three characters, after a
\* character that is no parenthesis, and what follows does not change it.
C31_Witness ==
    /\ santa_out.part2 # << >>
    /\ dirs_x = << Multibyte, ")", "(" >> /\ dirs_y = << ")", ")" >>
    /\ Part2.x = << 2 >> /\ Part2.taken = << 2 >> /\ Part2.sf_x = << 2 >>
    /\ Part2.xy = << 2 >>

-----------------------------------------------------------------------------
\* Claims about day2, checked under SpecPresent.  The sums of the claims are
\* computed exactly, in numbers that are not cut to 64 bits.

MinOf(a, b) == IF Less(b, a) THEN b ELSE a
MaxOf(a, b) == IF Less(a, b) THEN b ELSE a
Twice(a) == Plus(a, a)

\* 2*l*w + 2*w*h + 2*h*l + min(l*w, w*h, h*l)
WrapOf(p) ==
    LET lw == Times(Number(p.l), Number(p.w))
        wh == Times(Number(p.w), Number(p.h))
        hl == Times(Number(p.h), Number(p.l))
    IN  Plus(Plus(Plus(Twice(lw), Twice(wh)), Twice(hl)), MinOf(lw, MinOf(wh, hl)))

\* 2*l + 2*w + 2*h - 2*max(l, w, h) + l*w*h
RibbonOf(p) ==
    LET l == Number(p.l)
        w == Number(p.w)
        h == Number(p.h)
    IN  Plus(Minus(Plus(Plus(Twice(l), Twice(w)), Twice(h)), Twice(MaxOf(l, MaxOf(w, h)))),
             Times(Times(l, w), h))

\* The sum of F over a list that starts with n copies of its head.
RECURSIVE SumOver(_, _, _)
SumOver(F(_), list, n) ==
    IF list = << >> THEN Number(0)
    ELSE Plus(Times(Number(n), F(Head(list))), SumOver(F, Tail(list), 1))

Wrapped == totals.wrap[1]
Ribboned == totals.ribbon[1]
WrapTotal == SumOver(WrapOf, presents, copies)
RibbonTotal == SumOver(RibbonOf, presents, copies)

\* C32 as stated: for every list of presents with dimensions in 0..100000
\* wrap of the list is the sum over the presents of 2*l*w + 2*w*h + 2*h*l +
\* min(l*w, w*h, h*l); the empty list gives 0, and wrap of a head followed by
\* a tail is that value of the head plus wrap of the tail.
C32_WrapIsTheSum ==
    totals.wrap # << >> =>
        /\ ~Wrapped.all.panic
        /\ Wrapped.all.value = WrapTotal
        /\ presents = << >> => Wrapped.all.value = Number(0)
        /\ presents # << >> =>
              /\ ~Wrapped.tail.panic
              /\ Wrapped.all.value = Plus(WrapOf(Head(presents)), Wrapped.tail.value)

\* C32 as amended: the same whenever the sum is below 2^64; above, wrap
\* panics in a build that checks the arithmetic and returns the sum modulo
\* 2^64 in a build that does not.
C32_WrapIsTheSumInRange ==
    totals.wrap # << >> =>
        IF usize_fits(WrapTotal)
        THEN /\ ~Wrapped.all.panic
             /\ Wrapped.all.value = WrapTotal
             /\ presents = << >> => Wrapped.all.value = Number(0)
             /\ presents # << >> =>
                   /\ ~Wrapped.tail.panic
                   /\ Wrapped.all.value = Plus(WrapOf(Head(presents)), Wrapped.tail.value)
        ELSE IF overflow_checks THEN Wrapped.all.panic
             ELSE ~Wrapped.all.panic /\ Wrapped.all.value = usize_wrap(WrapTotal)

\* wrap returned the sum for 18448 presents of the largest size followed by
\* a present with three different sides, a sum of more than 32 bits.
C32_Witness ==
    /\ totals.wrap # << >>
    /\ copies = 18448
    /\ presents = << [l |-> UMAX - 1, w |-> UMAX - 1, h |-> UMAX - 1],
                     [l |-> 3, w |-> 0, h |-> UMAX - 1] >>
    /\ ~Wrapped.all.panic
    /\ Wrapped.all.value = WrapTotal
    /\ Less(Number(2147483647), Wrapped.all.value)

\* C33 as stated: for every list of presents with dimensions in 0..100000
\* ribbon of the list is the sum over the presents of 2*l + 2*w + 2*h -
\* 2*max(l, w, h) + l*w*h, computed in unsigned arithmetic without the
\* subtraction going below zero; the empty list gives 0.
C33_RibbonIsTheSum ==
    totals.ribbon # << >> =>
        /\ ~Ribboned.all.panic
        /\ Ribboned.all.value = RibbonTotal
        /\ presents = << >> => Ribboned.all.value = Number(0)

\* C33 as amended: the same whenever the sum is below 2^64; above, ribbon
\* panics in a build that checks the arithmetic and returns the sum modulo
\* 2^64 in a build that does not.  The subtraction is never the operation
\* that leaves the range.
C33_RibbonIsTheSumInRange ==
    totals.ribbon # << >> =>
        IF usize_fits(RibbonTotal)
        THEN /\ ~Ribboned.all.panic
             /\ Ribboned.all.value = RibbonTotal
             /\ presents = << >> => Ribboned.all.value = Number(0)
        ELSE IF overflow_checks THEN Ribboned.all.panic
             ELSE ~Ribboned.all.panic /\ Ribboned.all.value = usize_wrap(RibbonTotal)

\* ribbon returned the sum for a present whose largest side is not the
\* first one, after a present of the largest size.
C33_Witness ==
    /\ totals.ribbon # << >>
    /\ copies = 1
    /\ presents = << [l |-> UMAX - 1, w |-> UMAX - 1, h |-> UMAX - 1],
                     [l |-> 3, w |-> UMAX - 1, h |-> 0] >>
    /\ ~Ribboned.all.panic
    /\ Ribboned.all.value = RibbonTotal
    /\ Less(Number(2147483647), Ribboned.all.value)

\* C35: Seahorn's classifier reads the lines of stderr and then those of
\* stdout and takes the first decisive one: an expected panic line gives
\* Verified, the line sat gives Error, the line unsat gives Verified without
\* a registered expectation and Error with one; without a decisive line the
\* status is Unknown.  It is never Timeout, Overflow or Reachable.
C35_SeahornTable ==
    (Classified /\ run_backend = "Seahorn") =>
        /\ status = (IF DecisiveLines = {} THEN "Unknown"
                     ELSE IF Satisfies(FirstDecisive, Registered(stderr)) THEN "Verified"
                     ELSE IF FirstDecisive = SAT THEN "Error"
                     ELSE IF Registered(stderr) = NoneStr THEN "Verified"
                     ELSE "Error")
        /\ status \notin {"Timeout", "Overflow", "Reachable"}

\* Reached: stderr ends with sat and stdout holds unsat, with no expectation:
\* the line of stderr decides, Error.
C35_Witness ==
    /\ run_pc = "returned"
    /\ run_backend = "Seahorn"
    /\ Registered(stderr) = NoneStr
    /\ stderr # << >> /\ stderr[Len(stderr)] = SAT
    /\ Cardinality({i \in 1..Len(stderr) : stderr[i] = SAT}) = 1
    /\ stdout = << UNSAT >>
    /\ status = "Error"

\* Reached: only stdout holds a decisive line, unsat, and an expectation is
\* registered on stderr: Error.
C35_WitnessStdout ==
    /\ run_pc = "returned"
    /\ run_backend = "Seahorn"
    /\ Registered(stderr) # NoneStr
    /\ DecisiveLines = {Len(stderr) + 1}
    /\ stdout = << UNSAT >>
    /\ status = "Error"

-----------------------------------------------------------------------------
\* Claims about the marker lines, checked under SpecMarker.

\* The line the status scan is at.
LineAtPos == ScannedText[pos]
\* A pattern of the tables is in the text of line l.
HoldsPattern(l) ==
    \/ IsGenericFailure(l)
    \/ IsPanicLine(l)
    \/ contains(l, KLEE_DONE_LIT)

\* C34: a line that starts with VERIFIER_EXPECT: never decides the status
\* scan, also when its text holds a failure pattern or a panic phrase: the
\* scan goes on with the next line, and the line at which a status was
\* decided is no such line.
C34_Step ==
    /\ (/\ run_pc = "status"
        /\ pos <= Len(ScannedText)
        /\ starts_with(LineAtPos, VERIFIER_EXPECT)) =>
           /\ status' = NoStatus
           /\ run_pc' = "status"
           /\ pos' = pos + 1
    /\ (status = NoStatus /\ status' # NoStatus /\ pos <= Len(ScannedText)) =>
           ~starts_with(LineAtPos, VERIFIER_EXPECT)
C34_MarkerLineNeverDecides == [][C34_Step]_vars

\* Reached: a marker line that holds a panic phrase and satisfies the
\* registered expectation came first, a second marker line followed, and the
\* third line decided.
C34_Witness ==
    /\ Classified
    /\ Len(stderr) = 3
    /\ starts_with(stderr[1], VERIFIER_EXPECT) /\ IsPanicLine(stderr[1])
    /\ Satisfies(stderr[1], Registered(stderr))
    /\ starts_with(stderr[2], VERIFIER_EXPECT)
    /\ pos = 3
    /\ status = "Verified"

\* Reached: a marker line whose expected message is a generic failure
\* pattern was passed over, and the run is Unknown.
C34_WitnessFailurePattern ==
    /\ Classified
    /\ run_backend = "Klee"
    /\ Len(stderr) = 2
    /\ starts_with(stderr[1], VERIFIER_EXPECT) /\ IsGenericFailure(stderr[1])
    /\ status = "Unknown"

-----------------------------------------------------------------------------
\* Claims about one line of KLEE's output, checked under SpecLine.

\* The last line of stderr, and whether all lines before it are marker lines.
LastLine == stderr[Len(stderr)]
OneLineOutput ==
    /\ stderr # << >>
    /\ \A i \in 1..(Len(stderr) - 1) : starts_with(stderr[i], VERIFIER_EXPECT)
LinkOrLoad(l) == starts_with(l, KLEE_COULD_NOT_LINK) \/ starts_with(l, KLEE_UNABLE_TO_LOAD)
\* The line matches a failure pattern of KLEE's table.
FailurePattern(l) == IsKleeError(l) \/ IsGenericFailure(l) \/ contains(l, RUST_BACKTRACE)

\* C12: within one KLEE line the failure categories come before the done
\* marker: Could not link and Unable to load symbol give Unknown, another
\* KLEE: ERROR: line gives Reachable when it mentions unreachable, else Overflow
\* when it mentions overflow, else Error; a line with a generic failure pattern
\* is not classified by the done marker it contains, and a line with the done
\* marker and no failure pattern is Verified without an expectation and Error
\* with one.
C12_FailuresBeforeDone ==
    (Classified /\ run_backend = "Klee" /\ OneLineOutput /\ ~IsTimeoutMarker(LastLine)) =>
        LET l == LastLine IN
        /\ LinkOrLoad(l) => status = "Unknown"
        /\ (IsKleeError(l) /\ ~LinkOrLoad(l)) =>
             status = IF contains(l, UNREACHABLE) THEN "Reachable"
                      ELSE IF contains(l, OVERFLOW) THEN "Overflow"
                      ELSE "Error"
        /\ (~IsKleeError(l) /\ IsGenericFailure(l) /\ ~IsPanicLine(l)) =>
             status \in {"Error", "Overflow"}
        /\ (FailurePattern(l) /\ Registered(stderr) = NoneStr) => status # "Verified"
        /\ (contains(l, KLEE_DONE_LIT) /\ ~FailurePattern(l) /\ ~IsPanicLine(l)) =>
             status = IF Registered(stderr) = NoneStr THEN "Verified" ELSE "Error"

\* Reached: a Could not link line that also holds the done marker, with no
\* expectation, is Unknown.
C12_Witness ==
    /\ Classified
    /\ run_backend = "Klee"
    /\ Len(stderr) = 1
    /\ starts_with(LastLine, KLEE_COULD_NOT_LINK)
    /\ contains(LastLine, KLEE_DONE_LIT)
    /\ status = "Unknown"


====
